---- MODULE Spec2Model ----
(***************************************************************************)
(* Messaging and request-lifecycle layer of the Personalized Video         *)
(* Learning extension: the content-script MessageClient, the background    *)
(* service worker's two listeners, the MessageRouter with its handlers,    *)
(* the StorageManager and the AIService confusion heuristic.               *)
(*                                                                         *)
(* JavaScript values are records tagged by "kind"; a string is the         *)
(* sequence of the parts a template literal concatenates, so that a        *)
(* message "names" a value exactly when the value is one of its parts.     *)
(***************************************************************************)
EXTENDS Integers, Sequences, FiniteSets, TLC

VARIABLES
    store,      \* chrome.storage.sync: settings key -> stored value (Absent = not stored)
    defaults,   \* StorageManager.defaults.userData, the in-memory defaults object
    inbox,      \* requests delivered to the background and not answered yet
    lastSent,   \* the exchange (request, handler outcome, response) the background completed
                \* last with a context other than the modelled calls
    sawUnknown, \* such a context's request with no registered handler has been answered
    calls,      \* MessageClient: one record per client call
    chan,       \* per call: messages on its port, posted and not yet dispatched to the client
    respOrder,  \* call ids in the order the background answered their port requests
    tracker,    \* BehaviorTracker: this.data, isTracking, the interval and the video's listeners
    emitted,    \* the events the tracker emitted in the last step, in order
    lastCall,   \* the last operation on the tracker and whether it was tracking before it
    lastWrite,  \* per settings key: the value of the last completed UPDATE_SETTINGS of
                \* that key, while nothing else has written the key since
    lastRead,   \* the last StorageManager reader call and what it returned
    recording,  \* the recordInteraction calls between their read and their write of
                \* userData, each with the value its read returned
    recorded,   \* the number of RECORD_INTERACTION requests answered
    resultText, \* callLLM: the text of the provider's reply
    parsed,     \* callLLM: what it returns for resultText, once it has
    lastOp,     \* the last StorageManager method called directly, its argument and result
    toggling,   \* the toggleFeature calls between their read and their write of
                \* features, each with the value its read returned
    round,      \* the features when the first of the TOGGLE_FEATURE requests being
                \* handled arrived, and the feature names answered since
    page,       \* the content script of one tab: the PersonalizedVideoLearning object, the
                \* trackers it created, its listeners, its init() calls and the change
                \* notifications on their way to it
    ui          \* the messages the content script posted to the page UI, in order

vars == <<store, defaults, inbox, lastSent, sawUnknown, calls, chan, respOrder,
          tracker, emitted, lastCall, lastWrite, lastRead, recording, recorded,
          resultText, parsed, lastOp, toggling, round, page, ui>>
bgVars == <<store, defaults, inbox, lastSent, sawUnknown>>
clientVars == <<calls, chan, respOrder>>
trackerVars == <<tracker, emitted, lastCall, ui>>
providerVars == <<resultText, parsed>>
toggleVars == <<toggling, round>>
storageVars == <<lastOp, toggleVars>>
pageVars == <<page>>
settingsVars == <<lastWrite, lastRead, recording, recorded, providerVars, storageVars,
                  pageVars>>

----------------------------------------------------------------------------
(* Bounds of the model *)

MaxCalls == 2           \* concurrent client calls
MaxRequestIds == 2      \* distinct values `${Date.now()}-${random}` can take
MaxNoise == 1           \* stray messages one port carries
MaxCount == 3           \* largest rewindCount / pauseCount of a Behavior sample
MaxInterventions == 1   \* cap on userData.totalInterventions
MaxPosition == 10       \* largest playback position, in seconds
MaxVisits == 3          \* cap on the visit count of one segment
MaxRewinds == 3         \* cap on rewindCount
MaxPauses == 5          \* cap on pauseCount
MaxSpeedChanges == 1    \* cap on playbackSpeedChanges
MaxStarts == 2          \* cap on the times one tracker subscribes to the video
MaxTextLen == 4         \* tokens in a provider text
MaxRecords == 4         \* RECORD_INTERACTION requests in a behaviour
MaxInits == 3           \* init() calls of one content script that pass the guard
MaxChanges == 2         \* changes of extensionEnabled in a behaviour

----------------------------------------------------------------------------
(* JavaScript values *)

Absent == [kind |-> "absent"]                    \* undefined, or a property that is not there
Null == [kind |-> "null"]
Bool(b) == [kind |-> "bool", b |-> b]
Num(n) == [kind |-> "num", n |-> n]
Str(parts) == [kind |-> "str", s |-> parts]      \* parts: the concatenated pieces
List(items) == [kind |-> "list", items |-> items]
Tenths(n) == [kind |-> "num", n |-> n, scale |-> 10]   \* the number n / 10
Timestamp == [kind |-> "time"]                   \* a value of Date.now()

\* obj.f, with undefined for a missing property or a non-object
Get(obj, f) == IF obj.kind = "obj" /\ f \in DOMAIN obj THEN obj[f] ELSE Absent

\* JavaScript truthiness
Truthy(v) ==
    CASE v.kind \in {"absent", "null"} -> FALSE
      [] v.kind = "bool" -> v.b
      [] v.kind = "num" -> v.n # 0
      [] v.kind = "str" -> v.s # <<>>
      [] OTHER -> TRUE

\* a || b
Or(a, b) == IF Truthy(a) THEN a ELSE b

\* the text of `${v}` for the values that reach a template literal here
Text(v) ==
    CASE v.kind = "str" -> v.s
      [] v.kind = "absent" -> <<"undefined">>
      [] v.kind = "null" -> <<"null">>
      [] OTHER -> <<"[object Object]">>

\* outcome of running a handler: it throws an Error with message msg, or returns val;
\* handleVLMRequest can also give up without an exception (the provider sent no text)
Throw(msg) == [how |-> "threw", msg |-> msg, val |-> Absent]
Return(v) == [how |-> "returned", msg |-> <<>>, val |-> v]
GiveUp(msg) == [how |-> "gaveup", msg |-> msg, val |-> Absent]

----------------------------------------------------------------------------
(* AIService.detectConfusion *)

ConfusedRecommendation == <<"User may be struggling. Offer simplification or step breakdown.">>
FollowingRecommendation == <<"User appears to be following along well.">>
Interventions == <<"vocabulary_simplification", "step_breakdown", "pause_assistance">>

ConfusionThreshold == 3
RewindWeight == 2

\* the score with rewinds counted once
confusionScoreUnweighted(userBehavior) ==
    userBehavior.rewindCount.n + userBehavior.pauseCount.n

confusionScore(userBehavior) ==
    (userBehavior.rewindCount.n * RewindWeight) + userBehavior.pauseCount.n

detectConfusion(userBehavior) ==
    LET score == confusionScore(userBehavior) IN
    [kind |-> "obj",
     isConfused |-> Bool(score >= ConfusionThreshold),
     confusionScore |-> Num(score),
     recommendation |-> IF score >= ConfusionThreshold
                          THEN Str(ConfusedRecommendation)
                          ELSE Str(FollowingRecommendation),
     suggestedIntervention |-> IF score >= ConfusionThreshold
                                 THEN List(Interventions)
                                 ELSE Null]

----------------------------------------------------------------------------
(* StorageManager *)

FeatureNames == {"objectHighlighting", "vocabularySimplification", "stepChecklist",
                 "autoPause", "focusMode"}
DefaultKeys == {"features", "extensionEnabled", "preferences", "ai", "userData"}
StoreKeys == DefaultKeys \cup {"geminiApiKey", "undefined", "theme"}

\* the object literal with the given fields
Obj(fields) ==
    [k \in DOMAIN fields \cup {"kind"} |-> IF k = "kind" THEN "obj" ELSE fields[k]]

\* obj with obj[f] = v
SetField(obj, f, v) ==
    [k \in DOMAIN obj \cup {f} |-> IF k = f THEN v ELSE obj[k]]

\* the property name a value is used as: [key] and obj[key] stringify it
KeyOf(v) == IF v.kind = "str" /\ Len(v.s) = 1 THEN v.s[1] ELSE Text(v)[1]

DefaultFeatures ==
    [kind |-> "obj", objectHighlighting |-> Bool(TRUE), vocabularySimplification |-> Bool(TRUE),
     stepChecklist |-> Bool(TRUE), autoPause |-> Bool(TRUE), focusMode |-> Bool(FALSE)]
DefaultPreferences ==
    [kind |-> "obj", simplificationLevel |-> Str(<<"elementary">>),
     highlightColor |-> Str(<<"#FFD700">>), highlightOpacity |-> Tenths(3),
     pauseDuration |-> Num(3), proactiveAssistance |-> Bool(TRUE),
     uiPosition |-> Str(<<"right">>), fontSize |-> Str(<<"medium">>)]
DefaultAI ==
    [kind |-> "obj", provider |-> Str(<<"openai">>), apiKey |-> Null, apiEndpoint |-> Null,
     modelVLM |-> Str(<<"gpt-4-vision-preview">>), modelLLM |-> Str(<<"gpt-4-turbo-preview">>),
     useMockAI |-> Bool(TRUE)]
DefaultUserData ==
    [kind |-> "obj", totalVideosWatched |-> Num(0), totalInterventions |-> Num(0),
     preferredInterventions |-> List(<<>>), lastUsed |-> Null]

\* StorageManager.constructor: this.defaults
ConstructorDefaults ==
    [k \in DefaultKeys |->
        CASE k = "features" -> DefaultFeatures
          [] k = "extensionEnabled" -> Bool(TRUE)
          [] k = "preferences" -> DefaultPreferences
          [] k = "ai" -> DefaultAI
          [] k = "userData" -> DefaultUserData]

EmptyStore == [k \in StoreKeys |-> Absent]

\* an initialization that leaves extensionEnabled out
initializeDefaultsWithoutEnabled(st, df) ==
    [k \in StoreKeys |-> IF k \in DefaultKeys \ {"extensionEnabled"} THEN df[k] ELSE st[k]]

\* chrome.storage.sync.set(this.defaults)
initializeDefaults(st, df) ==
    [k \in StoreKeys |-> IF k \in DefaultKeys THEN df[k] ELSE st[k]]

getSetting(st, key) == IF KeyOf(key) \in StoreKeys THEN st[KeyOf(key)] ELSE Absent

\* chrome.storage.sync.get(null): the keys that are stored
getAllSettings(st) ==
    Obj([k \in {x \in StoreKeys : st[x] # Absent} |-> st[k]])

\* a set that merges an object value into the stored object
updateSettingMerging(st, key, value) ==
    LET old == getSetting(st, key) IN
    IF KeyOf(key) \notin StoreKeys THEN st
    ELSE IF old.kind = "obj" /\ value.kind = "obj"
      THEN [st EXCEPT ![KeyOf(key)] =
               [f \in DOMAIN old \cup DOMAIN value |->
                   IF f \in DOMAIN value THEN value[f] ELSE old[f]]]
      ELSE [st EXCEPT ![KeyOf(key)] = value]

\* chrome.storage.sync.set({[key]: value}): the whole value of that one key is replaced
updateSetting(st, key, value) ==
    IF KeyOf(key) \in StoreKeys THEN [st EXCEPT ![KeyOf(key)] = value] ELSE st

\* StorageManager.toggleFeature from the point where its read of features has
\* returned stored: the new store and the returned state
toggleFeatureOn(st, stored, featureName) ==
    LET features == Or(stored, Obj(<<>>))
        flipped == Bool(~Truthy(Get(features, KeyOf(featureName))))
        updated == SetField(features, KeyOf(featureName), flipped)
    IN [store |-> updateSetting(st, Str(<<"features">>), updated), result |-> flipped]

\* toggleFeature run without another handler in between
toggleFeature(st, featureName) ==
    toggleFeatureOn(st, getSetting(st, Str(<<"features">>)), featureName)

\* a ?? b
Nullish(a, b) == IF a.kind \in {"absent", "null"} THEN b ELSE a

\* StorageManager.isExtensionEnabled
isExtensionEnabled(st) ==
    LET val == getSetting(st, Str(<<"extensionEnabled">>)) IN
    IF val.kind = "bool" THEN val ELSE Bool(TRUE)

\* StorageManager.setExtensionEnabled: updateSetting('extensionEnabled', !!enabled)
setExtensionEnabled(st, enabled) ==
    updateSetting(st, Str(<<"extensionEnabled">>), Bool(Truthy(enabled)))

\* StorageManager.toggleExtensionEnabled: next = !(current === false)
toggleExtensionEnabled(st) ==
    LET current == getSetting(st, Str(<<"extensionEnabled">>))
        next == Bool(~(current = Bool(FALSE)))
    IN [store |-> setExtensionEnabled(st, next), result |-> next]

\* StorageManager.isFeatureEnabled: features?.[featureName] ?? true
isFeatureEnabled(st, featureName) ==
    Nullish(Get(getSetting(st, Str(<<"features">>)), KeyOf(featureName)), Bool(TRUE))

\* StorageManager.getPreferences
getPreferences(st, df) == Or(getSetting(st, Str(<<"preferences">>)), df["preferences"])

\* StorageManager.getAIConfig
getAIConfig(st, df) == Or(getSetting(st, Str(<<"ai">>)), df["ai"])

\* {...a, ...b}: a new object with b's properties over a's
Spread(a, b) ==
    LET fa == IF a.kind = "obj" THEN DOMAIN a ELSE {"kind"}
        fb == IF b.kind = "obj" THEN DOMAIN b ELSE {"kind"}
    IN [f \in fa \cup fb |->
           IF f = "kind" THEN "obj" ELSE IF f \in fb THEN b[f] ELSE a[f]]

\* StorageManager.updatePreferences
updatePreferences(st, df, newPreferences) ==
    updateSetting(st, Str(<<"preferences">>), Spread(getPreferences(st, df), newPreferences))

\* StorageManager.updateAIConfig
updateAIConfig(st, df, config) ==
    updateSetting(st, Str(<<"ai">>), Spread(getAIConfig(st, df), config))

\* StorageManager.clearAllData: chrome.storage.sync.clear()
clearAllData(st) == EmptyStore

\* StorageManager.recordInteraction from the point where its read of userData
\* has returned stored: with no stored userData it works on, and so changes,
\* the defaults object itself
recordInteractionOn(st, df, stored, interactionType) ==
    LET userData == Or(stored, df["userData"])
        counted == SetField(userData, "totalInterventions",
                            Num(Get(userData, "totalInterventions").n + 1))
        used == SetField(counted, "lastUsed", Timestamp)
        list == IF Truthy(Get(used, "preferredInterventions"))
                  THEN Get(used, "preferredInterventions") ELSE List(<<>>)
        entry == [kind |-> "obj", type |-> interactionType, timestamp |-> Timestamp]
        pushed == SetField(used, "preferredInterventions", List(Append(list.items, entry)))
    IN [store |-> updateSetting(st, Str(<<"userData">>), pushed),
        defaults |-> IF Truthy(stored) THEN df ELSE [df EXCEPT !["userData"] = pushed]]

\* recordInteraction run without another handler in between: stored is what
\* getSetting('userData') returns
recordInteraction(st, df, interactionType) ==
    recordInteractionOn(st, df, getSetting(st, Str(<<"userData">>)), interactionType)

----------------------------------------------------------------------------
(* AIService: the provider calls.  What the provider does is the request's    *)
(* environment env: "json" (the text is JSON), "prose" (text with no JSON in  *)
(* it), "notext" (no text field in the reply), "neterr" (fetch rejects).      *)

ProviderOutcomes == {"json", "prose", "notext", "neterr"}

GEMINI_API_KEY == Str(<<"<YOUR_GEMINI_API_KEY_HERE>">>)
RealKey == Str(<<"AIza-real-key">>)
KeyMissingMsg == <<"Gemini API key not configured. Please set it in the extension popup.">>
FetchFailedMsg == <<"Failed to fetch">>
ProviderReply == "{\"error\":{\"code\":400}}"     \* JSON.stringify(data) of a reply without text
ProseText == Str(<<"I could not find anything.">>)
ParsedJson == [kind |-> "obj", parsed |-> Bool(TRUE)]   \* JSON.parse of the provider's JSON text

\* a key test that takes any non-empty text for a key
KeyUsableAnyText(key) == Truthy(key)

KeyUsable(key) == Truthy(key) /\ key # GEMINI_API_KEY

\* AIService.callLLM
callLLM(st, env) ==
    IF ~KeyUsable(getSetting(st, Str(<<"geminiApiKey">>))) THEN Throw(KeyMissingMsg)
    ELSE CASE env = "neterr" -> Throw(FetchFailedMsg)
           [] env = "notext" -> Throw(<<"Gemini LLM error: ", ProviderReply>>)
           [] env = "json" -> Return(ParsedJson)
           [] OTHER -> Return([kind |-> "obj", simplified |-> ProseText,
                               definitions |-> List(<<>>)])

\* The text of a provider reply, as far as callLLM's extraction looks at it: a
\* sequence of tokens, each a brace, a bracket, "n" (a JSON scalar such as 1,
\* or a "key": scalar member) or "p" (a word of prose).  JSON is read without
\* separators: an object or array holds at most one value.
Tokens == {"{", "}", "[", "]", "n", "p"}
Texts == UNION {[1..k -> Tokens] : k \in 1..MaxTextLen}
Closer(open) == IF open = "{" THEN "}" ELSE "]"
NoValue == [ok |-> FALSE, val |-> Absent, next |-> 0]

\* the JSON value that starts at token i of t, and the index after it
RECURSIVE ValueAt(_, _)
ValueAt(t, i) ==
    IF i > Len(t) THEN NoValue
    ELSE IF t[i] = "n" THEN [ok |-> TRUE, val |-> Num(1), next |-> i + 1]
    ELSE IF t[i] \notin {"{", "["} THEN NoValue
    ELSE IF i + 1 <= Len(t) /\ t[i + 1] = Closer(t[i])
      THEN [ok |-> TRUE, val |-> IF t[i] = "{" THEN Obj(<<>>) ELSE List(<<>>), next |-> i + 2]
    ELSE LET inner == ValueAt(t, i + 1) IN
         IF inner.ok /\ inner.next <= Len(t) /\ t[inner.next] = Closer(t[i])
           THEN [ok |-> TRUE,
                 val |-> IF t[i] = "{" THEN [kind |-> "obj", member |-> inner.val]
                         ELSE List(<<inner.val>>),
                 next |-> inner.next + 1]
           ELSE NoValue

\* JSON.parse(text): the value, or a SyntaxError
JSONparse(t) ==
    LET v == ValueAt(t, 1) IN
    IF v.ok /\ v.next = Len(t) + 1 THEN Return(v.val)
    ELSE Throw(<<"Unexpected token">>)

\* resultText.match(/\{[\s\S]*\}|\[[\s\S]*\]/): at the first index where one
\* of the alternatives matches, from the opening token to the last closing
\* token of its kind; <<>> for no match
MatchStarts(t) ==
    {i \in DOMAIN t : /\ t[i] \in {"{", "["}
                      /\ \E j \in DOMAIN t : j > i /\ t[j] = Closer(t[i])}
Least(S) == CHOOSE x \in S : \A y \in S : x <= y
Greatest(S) == CHOOSE x \in S : \A y \in S : x >= y
jsonMatch(t) ==
    IF MatchStarts(t) = {} THEN <<>>
    ELSE LET i == Least(MatchStarts(t))
             j == Greatest({k \in DOMAIN t : k > i /\ t[k] = Closer(t[i])})
         IN SubSeq(t, i, j)

\* callLLM from JSON.parse(resultText) to its return
TextAsSimplified(t) == [kind |-> "obj", simplified |-> Str(t), definitions |-> List(<<>>)]
parseResultText(t) ==
    IF JSONparse(t).how = "returned" THEN JSONparse(t).val
    ELSE IF jsonMatch(t) # <<>>
      THEN IF JSONparse(jsonMatch(t)).how = "returned" THEN JSONparse(jsonMatch(t)).val
           ELSE TextAsSimplified(t)
    ELSE TextAsSimplified(t)

\* resultText.indexOf('{') and resultText.lastIndexOf('}'), substring parsed:
\* <<>> when there is no such pair
braceSpan(t) ==
    LET opens == {i \in DOMAIN t : t[i] = "{"}
        closes == {i \in DOMAIN t : t[i] = "}"}
    IN IF opens # {} /\ closes # {} /\ Greatest(closes) > Least(opens)
         THEN SubSeq(t, Least(opens), Greatest(closes)) ELSE <<>>

EmptyDetection == [kind |-> "obj", objects |-> List(<<>>)]

\* callVLM from JSON.parse(resultText) to its return
parseVLMText(t) ==
    IF JSONparse(t).how = "returned" THEN JSONparse(t).val
    ELSE IF braceSpan(t) # <<>> /\ JSONparse(braceSpan(t)).how = "returned"
      THEN JSONparse(braceSpan(t)).val
    ELSE EmptyDetection

\* handleVLMRequest from JSON.parse(resultText) to its return: the parsed
\* value, or the text itself when nothing was parsed
vlmResultOfText(t) ==
    LET parsedText == IF JSONparse(t).how = "returned" THEN JSONparse(t).val
                      ELSE IF braceSpan(t) # <<>> /\ JSONparse(braceSpan(t)).how = "returned"
                        THEN JSONparse(braceSpan(t)).val
                      ELSE Null
    IN [kind |-> "obj", success |-> Bool(TRUE),
        data |-> IF Truthy(parsedText) THEN parsedText ELSE Str(t)]

\* a data URI as the two regular expressions of callVLM / handleVLMRequest see it
DataUri(enc) == [kind |-> "str", s |-> <<"data:", enc>>]
ValidDataUri(url) == url.kind = "str" /\ Len(url.s) = 2 /\ url.s[2] \in {"base64", "inline"}

\* AIService.callVLM
callVLM(st, frameDataUrl, env) ==
    IF ~KeyUsable(getSetting(st, Str(<<"geminiApiKey">>))) THEN Throw(KeyMissingMsg)
    ELSE IF ~ValidDataUri(frameDataUrl) THEN Throw(<<"Invalid image data URI">>)
    ELSE CASE env = "neterr" -> Throw(FetchFailedMsg)
           [] env = "notext" -> Throw(<<"Gemini VLM error: ", ProviderReply>>)
           [] env = "json" -> Return(ParsedJson)
           [] OTHER -> Return([kind |-> "obj", objects |-> List(<<>>)])

\* AIService.analyzeFrame
analyzeFrame(st, frameDataUrl, env) ==
    IF ~Truthy(frameDataUrl) THEN Throw(<<"No frame data provided">>)
    ELSE callVLM(st, frameDataUrl, env)

\* AIService.simplifyVocabulary
simplifyVocabulary(st, text, env) ==
    IF ~Truthy(text) THEN Throw(<<"No text provided for simplification">>)
    ELSE callLLM(st, env)

\* AIService.generateChecklist
generateChecklist(st, transcript, env) ==
    IF ~Truthy(transcript) THEN Throw(<<"No transcript provided for checklist generation">>)
    ELSE callLLM(st, env)

----------------------------------------------------------------------------
(* MessageRouter.  A handler run yields its outcome and the store and the     *)
(* defaults object it leaves behind.                                           *)

HandlerTypes == {"ANALYZE_FRAME", "TEST_GEMINI", "SIMPLIFY_TEXT", "GENERATE_CHECKLIST",
                 "DETECT_CONFUSION", "EXTENSION_READY", "GET_SETTINGS", "UPDATE_SETTINGS",
                 "TOGGLE_FEATURE", "RECORD_INTERACTION"}

Ran(out, st, df) == [out |-> out, store |-> st, defaults |-> df]

handleTestGemini(st, df) ==
    LET key == getSetting(st, Str(<<"geminiApiKey">>)) IN
    Ran(Return([kind |-> "obj", geminiKeyPresent |-> Bool(Truthy(key))]), st, df)

handleDetectConfusion(data, st, df) ==
    LET userBehavior == Get(data, "userBehavior") IN
    IF userBehavior.kind # "obj"
      THEN Ran(Throw(<<"Cannot destructure property 'rewindCount' of 'userBehavior' as it is undefined.">>),
               st, df)
      ELSE Ran(Return(detectConfusion(userBehavior)), st, df)

\* a GET_SETTINGS that answers keys from the defaults object
handleGetSettingsFromDefaults(data, st, df) ==
    LET keys == Get(data, "keys") IN
    IF Truthy(keys)
      THEN Ran(Return(Obj([k \in {KeyOf(keys.items[i]) : i \in DOMAIN keys.items} |->
                              IF k \in DefaultKeys THEN df[k] ELSE Absent])), st, df)
      ELSE Ran(Return(getAllSettings(st)), st, df)

handleGetSettings(data, st, df) ==
    LET keys == Get(data, "keys") IN
    IF Truthy(keys)
      THEN Ran(Return(Obj([k \in {KeyOf(keys.items[i]) : i \in DOMAIN keys.items} |->
                              getSetting(st, Str(<<k>>))])), st, df)
      ELSE Ran(Return(getAllSettings(st)), st, df)

handleUpdateSettings(data, st, df) ==
    Ran(Return([kind |-> "obj", success |-> Bool(TRUE)]),
        updateSetting(st, Get(data, "key"), Get(data, "value")), df)

handleToggleFeature(data, st, df) ==
    LET t == toggleFeature(st, Get(data, "featureName")) IN
    Ran(Return([kind |-> "obj", featureName |-> Get(data, "featureName"),
                enabled |-> t.result]), t.store, df)

handleRecordInteraction(data, st, df) ==
    LET r == recordInteraction(st, df, Get(data, "interactionType")) IN
    Ran(Return([kind |-> "obj", success |-> Bool(TRUE)]), r.store, r.defaults)

handleExtensionReady(data, st, df) ==
    LET r == recordInteraction(st, df, Str(<<"extension_ready">>)) IN
    IF Truthy(Get(data, "url"))
      THEN Ran(Return([kind |-> "obj", received |-> Bool(TRUE)]), r.store, r.defaults)
      ELSE Ran(Return([kind |-> "obj", received |-> Bool(TRUE)]), st, df)

\* a dispatch that lets a type without handler pass
handleMessageLenient(type, data, env, st, df) ==
    IF KeyOf(type) \notin HandlerTypes THEN Ran(Return(Absent), st, df)
    ELSE IF KeyOf(type) = "DETECT_CONFUSION" THEN handleDetectConfusion(data, st, df)
    ELSE handleGetSettings(data, st, df)

\* a dispatch whose error does not say which type was asked for
handleMessageTerse(type, data, env, st, df) ==
    IF KeyOf(type) \notin HandlerTypes THEN Ran(Throw(<<"Unknown message type">>), st, df)
    ELSE IF KeyOf(type) = "DETECT_CONFUSION" THEN handleDetectConfusion(data, st, df)
    ELSE handleGetSettings(data, st, df)

\* MessageRouter.handleMessage: the dispatch call.  type is the message's type
\* (Absent when the message has none).
handleMessage(type, data, env, st, df) ==
    IF KeyOf(type) \notin HandlerTypes
      THEN Ran(Throw(<<"Unknown message type: ", Text(type)[1]>>), st, df)
    ELSE CASE KeyOf(type) = "ANALYZE_FRAME" ->
                Ran(analyzeFrame(st, Get(data, "frameDataUrl"), env), st, df)
           [] KeyOf(type) = "TEST_GEMINI" -> handleTestGemini(st, df)
           [] KeyOf(type) = "SIMPLIFY_TEXT" ->
                Ran(simplifyVocabulary(st, Get(data, "text"), env), st, df)
           [] KeyOf(type) = "GENERATE_CHECKLIST" ->
                Ran(generateChecklist(st, Get(data, "transcript"), env), st, df)
           [] KeyOf(type) = "DETECT_CONFUSION" -> handleDetectConfusion(data, st, df)
           [] KeyOf(type) = "EXTENSION_READY" -> handleExtensionReady(data, st, df)
           [] KeyOf(type) = "GET_SETTINGS" -> handleGetSettings(data, st, df)
           [] KeyOf(type) = "UPDATE_SETTINGS" -> handleUpdateSettings(data, st, df)
           [] KeyOf(type) = "TOGGLE_FEATURE" -> handleToggleFeature(data, st, df)
           [] OTHER -> handleRecordInteraction(data, st, df)

----------------------------------------------------------------------------
(* background.js: handleVLMRequest and the two listeners *)

\* the body of handleVLMRequest's try block
vlmAttempt(data, env, st) ==
    LET imageData == Or(Get(data, "frameDataUrl"), Get(data, "imageData"))
        geminiKey == Or(getSetting(st, Str(<<"geminiApiKey">>)), GEMINI_API_KEY)
    IN  IF ~Truthy(imageData) THEN Throw(<<"No image data provided">>)
        ELSE IF ~ValidDataUri(imageData) THEN Throw(<<"Invalid image data URI">>)
        ELSE IF ~KeyUsable(geminiKey) THEN Throw(KeyMissingMsg)
        ELSE CASE env = "neterr" -> Throw(FetchFailedMsg)
               [] env = "notext" -> GiveUp(<<"Gemini VLM error: ", ProviderReply>>)
               [] env = "json" -> Return(ParsedJson)
               [] OTHER -> Return(ProseText)

\* a handleVLMRequest that keeps the raw text in a failed result
handleVLMRequestKeepsText(data, env, st) ==
    LET o == vlmAttempt(data, env, st) IN
    IF o.how = "returned"
      THEN [kind |-> "obj", success |-> Bool(TRUE), data |-> o.val]
      ELSE [kind |-> "obj", success |-> Bool(FALSE), error |-> Str(o.msg),
            data |-> ProseText]

\* handleVLMRequest: the result object it resolves with (it never rejects)
handleVLMRequest(data, env, st) ==
    LET o == vlmAttempt(data, env, st) IN
    IF o.how = "returned"
      THEN [kind |-> "obj", success |-> Bool(TRUE), data |-> o.val]
      ELSE [kind |-> "obj", success |-> Bool(FALSE), error |-> Str(o.msg)]

IsVLMType(type) == KeyOf(type) \in {"ANALYZE_FRAME", "TEST_GEMINI"}

\* what the request's handler did, as the listeners see it
HandlerRun(req, env, st, df) ==
    IF IsVLMType(req.type)
      THEN Ran(vlmAttempt(req.data, env, st), st, df)
      ELSE handleMessage(req.type, req.data, env, st, df)

\* a response envelope; a field the listener leaves out is Absent
NoId == 0
Envelope(requestId, success, data, error) ==
    [requestId |-> requestId, success |-> success, data |-> data, error |-> error]

\* a port listener without its catch branch
PortResponseUncaught(req, env, st, df) ==
    Envelope(req.requestId, Bool(TRUE), HandlerRun(req, env, st, df).out.val, Absent)

\* the port listener's postMessage of a handleVLMRequest result
postVLMResult(requestId, result) ==
    Envelope(requestId, Or(Get(result, "success"), Bool(FALSE)),
             Or(Get(result, "data"), Null), Or(Get(result, "error"), Null))

\* the one-shot listener's sendResponse of a handleVLMRequest result
sendVLMResult(result) ==
    IF Truthy(Get(result, "success"))
      THEN Envelope(NoId, Bool(TRUE), Get(result, "data"), Absent)
      ELSE Envelope(NoId, Bool(FALSE), Absent,
                    Or(Get(result, "error"), Str(<<"VLM failed">>)))

\* port.onMessage listener of chrome.runtime.onConnect: the message it posts
PortResponse(req, env, st, df) ==
    IF IsVLMType(req.type)
      THEN postVLMResult(req.requestId, handleVLMRequest(req.data, env, st))
      ELSE LET run == handleMessage(req.type, req.data, env, st, df) IN
           IF run.out.how = "threw"
             THEN Envelope(req.requestId, Bool(FALSE), Absent, Str(run.out.msg))
             ELSE Envelope(req.requestId, Bool(TRUE), run.out.val, Absent)

\* chrome.runtime.onMessage listener: the argument of sendResponse
OneShotResponse(req, env, st, df) ==
    IF IsVLMType(req.type)
      THEN sendVLMResult(handleVLMRequest(req.data, env, st))
      ELSE LET run == handleMessage(req.type, req.data, env, st, df) IN
           IF run.out.how = "threw"
             THEN Envelope(NoId, Bool(FALSE), Absent, Str(run.out.msg))
             ELSE Envelope(NoId, Bool(TRUE), run.out.val, Absent)

ListenerResponse(req, env, st, df) ==
    IF req.transport = "port" THEN PortResponse(req, env, st, df)
    ELSE OneShotResponse(req, env, st, df)

----------------------------------------------------------------------------
(* MessageClient *)

maxRetries == 3
baseDelay == 150
PortTimeoutMs == 45000
FallbackTimeoutMs == 15000

CallIds == 1..MaxCalls
RequestIds == 1..MaxRequestIds
\* Which value a requestId has does not matter, only which ones are equal: the
\* c-th call draws among the first c values.
IdChoices(c) == {id \in RequestIds : id <= c}

PortTimeoutMsg == <<"Timeout waiting for port response (> 45s)">>
FallbackTimeoutMsg == <<"Timeout waiting for port response">>
UnknownPortErrorMsg == <<"Unknown error from port">>
UnknownErrorMsg == <<"Unknown error">>

\* chrome.runtime.lastError.message of a failed one-shot send
ContextInvalidatedMsg == <<"Extension context invalidated", ".">>
PortClosedMsg == <<"The message port closed before a response was received", ".">>
NoReceiverMsg == <<"Could not establish connection. Receiving end does not exist.">>
TransportErrors == {ContextInvalidatedMsg, PortClosedMsg, NoReceiverMsg}

\* the regular expression of attempt(): the text contains one of the two phrases
TransientPhrases == {"Extension context invalidated",
                     "The message port closed before a response was received"}
\* a test that takes every transport error for a transient one
IsTransientAlways(msg) == TRUE

IsTransient(msg) == \E i \in DOMAIN msg : msg[i] \in TransientPhrases

\* MessageClient.sendMessage: the types sent over a persistent port
PortTypes == {"ANALYZE_FRAME", "TEST_GEMINI", "SIMPLIFY_TEXT", "GENERATE_CHECKLIST",
              "DETECT_CONFUSION"}
UsesPort(type) == KeyOf(type) \in PortTypes

IdleCall ==
    [phase |-> "idle",        \* idle, oneshot (callback pending), backoff, port, done
     path |-> "none",         \* strategy sendMessage chose: port or message
     type |-> Absent, data |-> Absent,
     requestId |-> NoId,      \* requestId of the call's port request
     triesLeft |-> 0,
     lastError |-> <<>>,      \* msg of attempt(): the last one-shot transport error
     listener |-> FALSE,      \* onMessage is registered on the port
     portState |-> "none",    \* none, open, closed
     timer |-> 0,             \* delay of the armed port timeout, 0 when none is armed
     retryDelay |-> 0,        \* delay of the armed retry timer, 0 when none is armed
     outcome |-> "pending",   \* pending, resolved, rejected: the promise sendMessage returned
     value |-> Absent, error |-> <<>>,
     log |-> <<>>,            \* the sends made, in order: "oneshot" or "port"
     nErrors |-> 0,           \* one-shot sends that ended in a transport error
     consumed |-> 0,          \* messages that passed onMessage's requestId test
     ignored |-> 0,           \* messages onMessage returned on
     disconnects |-> 0]       \* calls of port.disconnect()

\* resolve / reject of a promise: only the first one counts
resolve(cl, v) ==
    IF cl.outcome = "pending" THEN [cl EXCEPT !.outcome = "resolved", !.value = v] ELSE cl
reject(cl, msg) ==
    IF cl.outcome = "pending" THEN [cl EXCEPT !.outcome = "rejected", !.error = msg] ELSE cl

\* a listener that takes any message on its port for its response
IdMatchesAny(msg, requestId) == TRUE

\* the requestId test of both onMessage listeners
IdMatches(msg, requestId) == msg.requestId = requestId

\* a port send that arms no timeout
openPortNoTimeout(cl, id, delay) ==
    [cl EXCEPT !.phase = "port", !.requestId = id, !.listener = TRUE,
               !.portState = "open", !.log = Append(@, "port")]

\* chrome.runtime.connect, addListener, setTimeout and postMessage of a port send
openPort(cl, id, delay) ==
    [cl EXCEPT !.phase = "port", !.requestId = id, !.listener = TRUE,
               !.portState = "open", !.timer = delay, !.log = Append(@, "port")]

\* sendViaPort: onMessage
onMessagePort(cl, msg) ==
    IF ~IdMatches(msg, cl.requestId) THEN [cl EXCEPT !.ignored = @ + 1]
    ELSE LET closed == [cl EXCEPT !.consumed = @ + 1, !.timer = 0, !.listener = FALSE,
                                  !.portState = "closed", !.disconnects = @ + 1,
                                  !.phase = "done"]
         IN IF Truthy(msg.success) THEN resolve(closed, msg.data)
            ELSE reject(closed, Text(Or(msg.error, Str(UnknownPortErrorMsg))))

\* sendViaPort: the timeout callback
onTimeoutPort(cl) ==
    reject([cl EXCEPT !.timer = 0, !.listener = FALSE, !.portState = "closed",
                      !.disconnects = @ + 1, !.phase = "done"],
           PortTimeoutMsg)

\* connectTransport: onMessage (its timeout is not cleared), with attempt's
\* .then(resolve).catch(() => reject(new Error(msg)))
onMessageFallback(cl, msg) ==
    IF ~IdMatches(msg, cl.requestId) THEN [cl EXCEPT !.ignored = @ + 1]
    ELSE LET closed == [cl EXCEPT !.consumed = @ + 1, !.listener = FALSE,
                                  !.portState = "closed", !.disconnects = @ + 1,
                                  !.phase = "done"]
         IN IF Truthy(msg.success) THEN resolve(closed, msg.data)
            ELSE reject(closed, cl.lastError)

\* a fallback whose timeout rejects the call with the port's own error
onTimeoutFallbackOwnError(cl) ==
    reject([cl EXCEPT !.timer = 0, !.listener = FALSE, !.portState = "closed",
                      !.disconnects = @ + 1, !.phase = "done"],
           FallbackTimeoutMsg)

\* connectTransport: the timeout callback, with attempt's catch
onTimeoutFallback(cl) ==
    reject([cl EXCEPT !.timer = 0, !.listener = FALSE, !.portState = "closed",
                      !.disconnects = @ + 1, !.phase = "done"],
           cl.lastError)

\* a callback that waits the base delay before every retry
onLastErrorFlatDelay(cl, msg, id, connectOk) ==
    LET seen == [cl EXCEPT !.nErrors = @ + 1, !.lastError = msg] IN
    IF IsTransient(msg) /\ cl.triesLeft > 0
      THEN [seen EXCEPT !.phase = "backoff", !.retryDelay = baseDelay]
    ELSE IF connectOk THEN openPort(seen, id, FallbackTimeoutMs)
    ELSE reject([seen EXCEPT !.phase = "done"], msg)

\* attempt(): the sendMessage callback when chrome.runtime.lastError is set.
\* connectOk: chrome.runtime.connect of the fallback does not throw.
onLastError(cl, msg, id, connectOk) ==
    LET seen == [cl EXCEPT !.nErrors = @ + 1, !.lastError = msg] IN
    IF IsTransient(msg) /\ cl.triesLeft > 0
      THEN [seen EXCEPT !.phase = "backoff",
                        !.retryDelay = baseDelay * (maxRetries - cl.triesLeft + 1)]
    ELSE IF connectOk THEN openPort(seen, id, FallbackTimeoutMs)
    ELSE reject([seen EXCEPT !.phase = "done"], msg)

\* a callback that sends again when the response reports a failure
onResponseRetrying(cl, response) ==
    IF Truthy(response.success)
      THEN resolve([cl EXCEPT !.phase = "done"], response.data)
    ELSE IF cl.triesLeft > 0
      THEN [cl EXCEPT !.triesLeft = @ - 1, !.log = Append(@, "oneshot")]
    ELSE reject([cl EXCEPT !.phase = "done"],
                Text(Or(response.error, Str(UnknownErrorMsg))))

\* attempt(): the sendMessage callback with a response
onResponse(cl, response) ==
    IF Truthy(response.success)
      THEN resolve([cl EXCEPT !.phase = "done"], response.data)
      ELSE reject([cl EXCEPT !.phase = "done"],
                  Text(Or(response.error, Str(UnknownErrorMsg))))

\* attempt(triesLeft): chrome.runtime.sendMessage({type, data}, callback)
attempt(cl, triesLeft) ==
    [cl EXCEPT !.phase = "oneshot", !.triesLeft = triesLeft, !.retryDelay = 0,
               !.log = Append(@, "oneshot")]

PortRequest(c, cl) ==
    [call |-> c, transport |-> "port", type |-> cl.type, data |-> cl.data,
     requestId |-> cl.requestId]
OneShotRequest(c, cl) ==
    [call |-> c, transport |-> "oneshot", type |-> cl.type, data |-> cl.data,
     requestId |-> NoId]

\* a background that posts a response on every connected port
ResponseTargetsAll(req) == CallIds

\* the ports a port listener's postMessage reaches: the port the request came on
ResponseTargets(req) == {req.call}

----------------------------------------------------------------------------
(* BehaviorTracker.  this.data and the tracking state are the fields of one   *)
(* record; subscriptions is the number of listeners the tracker has added to  *)
(* the video for each playback event (VideoController.on is addEventListener  *)
(* with a freshly bound function, which nothing removes), timers the number   *)
(* of its intervals that are running.  A handler yields the tracker after it  *)
(* and the events it emitted.                                                 *)

rewindThreshold == 5
SegmentSeconds == 10
RewindTrip == 3
PauseTrip == 5

\* the positions video.getCurrentTime() returns and the rates getPlaybackRate() returns
Positions == {0, 4, 9, MaxPosition}
PlaybackRates == {1, 2}
PlaybackEvents == {"timeupdate", "pause", "play", "ratechange"}

\* BehaviorTracker.constructor
NewTracker ==
    [rewindCount |-> 0, pauseCount |-> 0, playbackSpeedChanges |-> 0,
     segmentWatchTimes |-> <<>>, lastPosition |-> 0,
     isTracking |-> FALSE, confusionCheckInterval |-> "null",
     subscriptions |-> 0, timers |-> 0]

Emit(event, data) == [event |-> event, data |-> data]
Did(t, events) == [tracker |-> t, emitted |-> events]

\* the visit count of a segment; a segment not in the map reads as 0
Visits(t, segment) ==
    IF segment \in DOMAIN t.segmentWatchTimes THEN t.segmentWatchTimes[segment] ELSE 0

\* Math.floor(currentTime / 10) * 10
SegmentOf(currentTime) == (currentTime \div SegmentSeconds) * SegmentSeconds

\* start() without its isTracking guard
startUnguarded(t) ==
    [t EXCEPT !.isTracking = TRUE, !.subscriptions = @ + 1,
              !.confusionCheckInterval = "set", !.timers = @ + 1]

start(t) ==
    IF t.isTracking THEN t
    ELSE [t EXCEPT !.isTracking = TRUE, !.subscriptions = @ + 1,
                   !.confusionCheckInterval = "set", !.timers = @ + 1]

\* stop() that leaves the interval running
stopKeepsInterval(t) ==
    IF ~t.isTracking THEN t ELSE [t EXCEPT !.isTracking = FALSE]

stop(t) ==
    IF ~t.isTracking THEN t
    ELSE [t EXCEPT !.isTracking = FALSE,
                   !.confusionCheckInterval = IF @ = "set" THEN "cleared" ELSE @,
                   !.timers = IF t.confusionCheckInterval = "set" THEN @ - 1 ELSE @]

handleTimeUpdate(t, currentTime) ==
    LET timeDiff == currentTime - t.lastPosition
        rewound == timeDiff < -rewindThreshold
        count == IF rewound THEN t.rewindCount + 1 ELSE t.rewindCount
        segment == SegmentOf(currentTime)
        times == [g \in DOMAIN t.segmentWatchTimes \cup {segment} |->
                     IF g = segment THEN Visits(t, segment) + 1 ELSE t.segmentWatchTimes[g]]
    IN Did([t EXCEPT !.rewindCount = count, !.segmentWatchTimes = times,
                     !.lastPosition = currentTime],
           IF rewound
             THEN <<Emit("rewind", [from |-> t.lastPosition, to |-> currentTime,
                                    count |-> count])>>
             ELSE <<>>)

handlePause(t, currentTime) ==
    Did([t EXCEPT !.pauseCount = @ + 1],
        <<Emit("pause", [time |-> currentTime, count |-> t.pauseCount + 1])>>)

handlePlay(t, currentTime) ==
    Did(t, <<Emit("play", [time |-> currentTime])>>)

handleRateChange(t, rate) ==
    Did([t EXCEPT !.playbackSpeedChanges = @ + 1],
        <<Emit("rate-change", [rate |-> rate, count |-> t.playbackSpeedChanges + 1])>>)

resetCounters(t) ==
    [t EXCEPT !.rewindCount = 0, !.pauseCount = 0, !.playbackSpeedChanges = 0]

\* a trip condition that also looks at the speed changes
TripsOnSpeed(t) ==
    t.rewindCount >= RewindTrip \/ t.pauseCount >= PauseTrip \/ t.playbackSpeedChanges >= 1

Trips(t) == t.rewindCount >= RewindTrip \/ t.pauseCount >= PauseTrip

\* a reset that also forgets the watch-time history
checkForConfusionForgetful(t, currentTime) ==
    IF Trips(t)
      THEN Did([resetCounters(t) EXCEPT !.segmentWatchTimes = <<>>],
               <<Emit("confusion-detected",
                      [rewindCount |-> t.rewindCount, pauseCount |-> t.pauseCount,
                       currentTimestamp |-> currentTime,
                       watchedSegments |-> t.segmentWatchTimes])>>)
      ELSE Did(t, <<>>)

checkForConfusion(t, currentTime) ==
    IF Trips(t)
      THEN Did(resetCounters(t),
               <<Emit("confusion-detected",
                      [rewindCount |-> t.rewindCount, pauseCount |-> t.pauseCount,
                       currentTimestamp |-> currentTime,
                       watchedSegments |-> t.segmentWatchTimes])>>)
      ELSE Did(t, <<>>)

\* the handler the tracker subscribed for a playback event
handlerOf(t, event, currentTime, rate) ==
    CASE event = "timeupdate" -> handleTimeUpdate(t, currentTime)
      [] event = "pause" -> handlePause(t, currentTime)
      [] event = "play" -> handlePlay(t, currentTime)
      [] event = "ratechange" -> handleRateChange(t, rate)

\* the video dispatches an event to the n listeners the tracker added for it
RECURSIVE dispatchEvent(_, _, _, _, _)
dispatchEvent(t, event, currentTime, rate, n) ==
    IF n = 0 THEN Did(t, <<>>)
    ELSE LET first == handlerOf(t, event, currentTime, rate)
             rest == dispatchEvent(first.tracker, event, currentTime, rate, n - 1)
         IN Did(rest.tracker, first.emitted \o rest.emitted)

----------------------------------------------------------------------------
(* Requests *)

\* a Behavior sample as BehaviorTracker.checkForConfusion emits it
Sample(rewinds, pauses, position) ==
    [kind |-> "obj", rewindCount |-> Num(rewinds), pauseCount |-> Num(pauses),
     currentTimestamp |-> Num(position), watchedSegments |-> Obj(<<>>)]
Samples == {Sample(r, p, t) : r \in 0..MaxCount, p \in 0..MaxCount, t \in {0, 42}}

Req(type, data) == [type |-> Str(<<type>>), data |-> data]
Data1(f, v) == Obj([k \in {f} |-> v])

\* the requests the background is asked in the responder specification
ResponderRequests ==
    {Req(t, Data1("frameDataUrl", u)) :
        t \in {"ANALYZE_FRAME", "TEST_GEMINI"},
        u \in {Absent, DataUri("base64"), DataUri("garbled")}}
    \cup {Req("SIMPLIFY_TEXT", Data1("text", x)) : x \in {Absent, Str(<<"sophisticated">>)}}
    \cup {Req("GENERATE_CHECKLIST", Data1("transcript", x)) : x \in {Absent, Str(<<"first">>)}}
    \cup {Req("DETECT_CONFUSION", Data1("userBehavior", b)) :
            b \in {Absent, Sample(3, 0, 42), Sample(0, 2, 42)}}
    \cup {Req("GET_SETTINGS", d) :
            d \in {Absent, Data1("keys", List(<<Str(<<"extensionEnabled">>)>>))}}
    \cup {Req("UPDATE_SETTINGS", [kind |-> "obj", key |-> Str(<<"extensionEnabled">>),
                                  value |-> Bool(b)]) : b \in BOOLEAN}
    \cup {Req("TOGGLE_FEATURE", Data1("featureName", Str(<<"focusMode">>)))}
    \cup {Req("RECORD_INTERACTION", Data1("interactionType", Str(<<"checklist">>)))}
    \cup {Req("EXTENSION_READY", Data1("url", Str(<<"https://example.org/watch">>)))}
    \cup {Req("UNKNOWN_OP", Absent), [type |-> Absent, data |-> Absent]}

\* requests whose data lacks the field their handler reads
IncompleteRequests ==
    {Req(t, d) :
        t \in {"ANALYZE_FRAME", "SIMPLIFY_TEXT", "GENERATE_CHECKLIST", "DETECT_CONFUSION",
               "UPDATE_SETTINGS", "TOGGLE_FEATURE", "RECORD_INTERACTION"},
        d \in {Absent, Obj(<<>>)}}
    \cup {Req("UPDATE_SETTINGS", Data1("value", Bool(FALSE))),
          Req("ANALYZE_FRAME", Data1("prompt", Str(<<"what is shown?">>)))}

\* DETECT_CONFUSION on every Behavior sample of the model
ConfusionRequests == {Req("DETECT_CONFUSION", Data1("userBehavior", b)) : b \in Samples}

\* The calls the content script makes in the transport specification: the
\* first is any of these, the calls made while it runs are DETECT_CONFUSION calls.
ConfusionCalls ==
    {Req("DETECT_CONFUSION", Data1("userBehavior", Sample(3, 0, 42))),
     Req("DETECT_CONFUSION", Data1("userBehavior", Sample(0, 2, 42)))}
ClientRequests(c) ==
    IF c = 1
      THEN ConfusionCalls \cup
           {Req("ANALYZE_FRAME", Data1("frameDataUrl", DataUri("base64"))),
            Req("GET_SETTINGS", Data1("keys", List(<<Str(<<"extensionEnabled">>)>>))),
            Req("UNKNOWN_OP", Absent)}
      ELSE ConfusionCalls

\* the requests the content script and the page UI make through the MessageClient
ContentRequests ==
    {Req("ANALYZE_FRAME", Data1("frameDataUrl", DataUri("base64"))),
     Req("TEST_GEMINI", Data1("frameDataUrl", DataUri("base64"))),
     Req("SIMPLIFY_TEXT", Data1("text", Str(<<"sophisticated">>))),
     Req("GENERATE_CHECKLIST", Data1("transcript", Str(<<"first">>))),
     Req("DETECT_CONFUSION", Data1("userBehavior", Sample(3, 0, 42))),
     Req("GET_SETTINGS", Data1("keys", List(<<Str(<<"extensionEnabled">>)>>))),
     Req("UPDATE_SETTINGS", [kind |-> "obj", key |-> Str(<<"extensionEnabled">>),
                             value |-> Bool(FALSE)]),
     Req("TOGGLE_FEATURE", Data1("featureName", Str(<<"focusMode">>))),
     Req("RECORD_INTERACTION", Data1("interactionType", Str(<<"checklist">>))),
     Req("EXTENSION_READY", Data1("url", Str(<<"https://example.org/watch">>)))}

\* the requests of the settings popup: loadSettings, updateSetting, testAPI
\* and testGeminiKey
PopupRequests ==
    {Req("GET_SETTINGS", Absent),
     Req("GET_SETTINGS", Data1("keys", List(<<Str(<<"geminiApiKey">>)>>))),
     Req("UPDATE_SETTINGS", [kind |-> "obj", key |-> Str(<<"extensionEnabled">>),
                             value |-> Bool(FALSE)]),
     Req("SIMPLIFY_TEXT", [kind |-> "obj",
                           text |-> Str(<<"The implementation utilizes sophisticated algorithms.">>),
                           level |-> Str(<<"elementary">>)]),
     Req("TEST_GEMINI", Data1("frameDataUrl", DataUri("base64")))}

InterventionsOf(st, df) ==
    Get(Or(getSetting(st, Str(<<"userData">>)), df["userData"]), "totalInterventions").n

----------------------------------------------------------------------------
(* The background process *)

\* A request reaches the background from a context that is not modelled further
\* (the popup, another tab).
Arrive(transport, rq, id) ==
    /\ inbox = {}
    /\ KeyOf(rq.type) \in {"RECORD_INTERACTION", "EXTENSION_READY"}
          => InterventionsOf(store, defaults) < MaxInterventions
    /\ inbox' = {[call |-> 0, transport |-> transport, type |-> rq.type, data |-> rq.data,
                  requestId |-> IF transport = "port" THEN id ELSE NoId]}
    /\ lastSent' = {}
    /\ UNCHANGED <<store, defaults, sawUnknown, clientVars>>

\* The popup sends a request: chrome.runtime.sendMessage({type, data})
PopupSend(rq) ==
    /\ rq \in PopupRequests
    /\ Arrive("oneshot", rq, NoId)

\* One of the two listeners handles a request and sends its response.
BgAnswer(req, env) ==
    /\ req \in inbox
    /\ LET run == HandlerRun(req, env, store, defaults)
           resp == ListenerResponse(req, env, store, defaults)
           reaches(c) == /\ c \in ResponseTargets(req)
                         /\ IF req.transport = "port" THEN calls[c].portState = "open"
                            ELSE calls[c].phase = "oneshot"
       IN /\ store' = run.store
          /\ defaults' = run.defaults
          /\ lastSent' = IF req.call \in CallIds THEN lastSent
                         ELSE {[req |-> req, out |-> run.out, resp |-> resp]}
          /\ sawUnknown' = (sawUnknown \/
                               (req.call \notin CallIds /\ KeyOf(req.type) \notin HandlerTypes))
          /\ chan' = [c \in CallIds |-> IF reaches(c) THEN chan[c] \cup {resp} ELSE chan[c]]
    /\ inbox' = inbox \ {req}
    /\ respOrder' = IF req.transport = "port" /\ req.call \in CallIds
                      THEN Append(respOrder, req.call) ELSE respOrder
    /\ UNCHANGED calls

\* the requests whose response is made from the provider's text
ReplyRequests ==
    {Req("ANALYZE_FRAME", Data1("frameDataUrl", DataUri("base64"))),
     Req("GENERATE_CHECKLIST", Data1("transcript", Str(<<"first">>)))}

\* the response to req when the provider's reply carries the text t
TextResponse(req, t) ==
    IF IsVLMType(req.type)
      THEN IF req.transport = "port" THEN postVLMResult(req.requestId, vlmResultOfText(t))
           ELSE sendVLMResult(vlmResultOfText(t))
      ELSE Envelope(req.requestId, Bool(TRUE), parseResultText(t), Absent)

\* One of the two listeners answers a request for which the provider was
\* reached and replied with resultText.
TextAnswer(req) ==
    /\ req \in inbox
    /\ LET resp == TextResponse(req, resultText) IN
       lastSent' = {[req |-> req, out |-> Return(resp.data), resp |-> resp]}
    /\ inbox' = inbox \ {req}
    /\ UNCHANGED <<store, defaults, sawUnknown, clientVars, trackerVars, settingsVars>>

\* The service worker is terminated (and restarted on the next event): the
\* requests it was handling are gone.
BgRestart ==
    /\ inbox # {}
    /\ inbox' = {}
    /\ UNCHANGED <<store, defaults, lastSent, sawUnknown, clientVars>>

----------------------------------------------------------------------------
(* The client *)

\* MessageClient.sendMessage(type, data): sendViaPort or sendViaMessage
SendMessage(c, rq, id, connectOk) ==
    /\ calls[c].phase = "idle"
    /\ IF c = 1 THEN TRUE ELSE calls[c - 1].phase # "idle"
    /\ LET cl == [calls[c] EXCEPT !.type = rq.type, !.data = rq.data] IN
       IF UsesPort(rq.type)
         THEN IF connectOk
                THEN LET sent == openPort([cl EXCEPT !.path = "port"], id, PortTimeoutMs) IN
                     /\ calls' = [calls EXCEPT ![c] = sent]
                     /\ inbox' = inbox \cup {PortRequest(c, sent)}
                ELSE /\ calls' = [calls EXCEPT ![c] =
                                    reject([cl EXCEPT !.path = "port", !.phase = "done"],
                                           ContextInvalidatedMsg)]
                     /\ UNCHANGED inbox
         ELSE LET sent == attempt([cl EXCEPT !.path = "message"], maxRetries) IN
              /\ calls' = [calls EXCEPT ![c] = sent]
              /\ inbox' = inbox \cup {OneShotRequest(c, sent)}
    /\ UNCHANGED <<store, defaults, lastSent, sawUnknown, chan, respOrder>>

\* attempt(): the callback runs with chrome.runtime.lastError set
OneShotError(c, msg, id, connectOk) ==
    /\ calls[c].phase = "oneshot"
    /\ LET next == onLastError(calls[c], msg, id, connectOk) IN
       /\ calls' = [calls EXCEPT ![c] = next]
       /\ inbox' = (inbox \ {OneShotRequest(c, calls[c])})
                     \cup (IF next.phase = "port" THEN {PortRequest(c, next)} ELSE {})
    /\ chan' = [chan EXCEPT ![c] = {}]
    /\ UNCHANGED <<store, defaults, lastSent, sawUnknown, respOrder>>

\* attempt(): the callback runs with the background's response
OneShotCallback(c, response) ==
    /\ calls[c].phase = "oneshot"
    /\ response \in chan[c]
    /\ calls' = [calls EXCEPT ![c] = onResponse(calls[c], response)]
    /\ chan' = [chan EXCEPT ![c] = {}]
    /\ UNCHANGED <<bgVars, respOrder>>

\* the retry timer of attempt() fires: attempt(triesLeft - 1)
RetryTimer(c) ==
    /\ calls[c].phase = "backoff"
    /\ LET sent == attempt(calls[c], calls[c].triesLeft - 1) IN
       /\ calls' = [calls EXCEPT ![c] = sent]
       /\ inbox' = inbox \cup {OneShotRequest(c, sent)}
    /\ UNCHANGED <<store, defaults, lastSent, sawUnknown, chan, respOrder>>

\* the call after msg is dispatched on its port: to onMessage while it is
\* registered and the port is connected, to nobody otherwise
dispatch(cl, msg) ==
    IF cl.listener /\ cl.portState = "open"
      THEN IF cl.path = "port" THEN onMessagePort(cl, msg) ELSE onMessageFallback(cl, msg)
      ELSE cl

\* A message on the call's port is dispatched.  again: the port will carry the
\* same message once more.
PortDeliver(c, msg, again) ==
    /\ calls[c].phase \in {"port", "done"}
    /\ msg \in chan[c]
    /\ calls' = [calls EXCEPT ![c] = dispatch(calls[c], msg)]
    /\ chan' = [chan EXCEPT ![c] = IF again THEN @ ELSE @ \ {msg}]
    /\ UNCHANGED <<bgVars, respOrder>>

\* The port timeout of the call fires.
TimeoutFires(c) ==
    /\ calls[c].timer # 0
    /\ calls' = [calls EXCEPT ![c] =
                    IF calls[c].path = "port" THEN onTimeoutPort(calls[c])
                    ELSE onTimeoutFallback(calls[c])]
    /\ UNCHANGED <<bgVars, chan, respOrder>>

\* Messages a connected port may carry besides the response: they have
\* another requestId or none.
StrayMessages(cl) ==
    {Envelope(id, Bool(TRUE), Str(<<"stray">>), Absent) :
        id \in (RequestIds \cup {NoId}) \ {cl.requestId}}

\* A stray message arrives on the call's connected port and is dispatched.
PortNoise(c, msg) ==
    /\ calls[c].phase = "port"
    /\ calls[c].portState = "open"
    /\ calls[c].ignored < MaxNoise
    /\ msg \in StrayMessages(calls[c])
    /\ calls' = [calls EXCEPT ![c] = dispatch(calls[c], msg)]
    /\ UNCHANGED <<bgVars, chan, respOrder>>

----------------------------------------------------------------------------
(* The tracker in the page *)

Called(op, t) == [op |-> op, wasTracking |-> t.isTracking]

\* BehaviorTracker.start()
Start ==
    /\ tracker.isTracking \/ tracker.subscriptions < MaxStarts
    /\ tracker' = start(tracker)
    /\ emitted' = <<>>
    /\ lastCall' = Called("start", tracker)
    /\ UNCHANGED <<bgVars, clientVars, settingsVars, ui>>

\* BehaviorTracker.stop()
Stop ==
    /\ tracker' = stop(tracker)
    /\ emitted' = <<>>
    /\ lastCall' = Called("stop", tracker)
    /\ UNCHANGED <<bgVars, clientVars, settingsVars, ui>>

WithinCaps(t) ==
    /\ t.rewindCount <= MaxRewinds
    /\ t.pauseCount <= MaxPauses
    /\ t.playbackSpeedChanges <= MaxSpeedChanges
    /\ \A g \in DOMAIN t.segmentWatchTimes : t.segmentWatchTimes[g] <= MaxVisits

\* The video fires a playback event: every listener the tracker added for it runs.
VideoEvent(event, currentTime, rate) ==
    /\ tracker.subscriptions >= 1
    /\ LET r == dispatchEvent(tracker, event, currentTime, rate, tracker.subscriptions) IN
       /\ WithinCaps(r.tracker)
       /\ tracker' = r.tracker
       /\ emitted' = r.emitted
    /\ lastCall' = Called(event, tracker)
    /\ UNCHANGED <<bgVars, clientVars, settingsVars, ui>>

\* One of the tracker's running intervals fires: checkForConfusion()
Tick(currentTime) ==
    /\ tracker.timers >= 1
    /\ LET r == checkForConfusion(tracker, currentTime) IN
       /\ tracker' = r.tracker
       /\ emitted' = r.emitted
    /\ lastCall' = Called("tick", tracker)
    /\ UNCHANGED <<bgVars, clientVars, settingsVars, ui>>

----------------------------------------------------------------------------
(* The content script between the tracker, the client and the page UI *)

\* a 'confusion-detected' payload as the data of a message
BehaviorData(payload) ==
    [kind |-> "obj", rewindCount |-> Num(payload.rewindCount),
     pauseCount |-> Num(payload.pauseCount),
     currentTimestamp |-> Num(payload.currentTimestamp),
     watchedSegments |-> [kind |-> "obj", visits |-> payload.watchedSegments]]

\* sendToUI('CONFUSION_DETECTED', {score, suggestions})
ConfusionMessage(result) ==
    [type |-> "PVL_RESPONSE_CONFUSION_DETECTED",
     data |-> [kind |-> "obj", score |-> Get(result, "confusionScore"),
               suggestions |-> Get(result, "suggestedIntervention")]]

\* a handler that posts nothing
handleConfusionResultSilent(posted, result) == posted

\* handleConfusionDetected once detectConfusion has resolved with result
handleConfusionResult(posted, result) ==
    IF Truthy(Get(result, "isConfused")) THEN Append(posted, ConfusionMessage(result))
    ELSE posted

FreeCalls == {c \in CallIds : calls[c].phase = "idle"}
NoCallInFlight == \A c \in CallIds : calls[c].phase \in {"idle", "done"}

\* The interval fires: checkForConfusion(), and on a trip the listener of
\* content.js calls messageClient.detectConfusion(payload).
AssistTick ==
    /\ tracker.timers >= 1
    /\ LET r == checkForConfusion(tracker, tracker.lastPosition) IN
       /\ tracker' = r.tracker
       /\ emitted' = r.emitted
       /\ IF r.emitted # <<>>
            THEN /\ FreeCalls # {}
                 /\ SendMessage(Least(FreeCalls),
                                Req("DETECT_CONFUSION",
                                    Data1("userBehavior", BehaviorData(r.emitted[1].data))),
                                1, TRUE)
            ELSE UNCHANGED <<bgVars, clientVars>>
    /\ lastCall' = Called("tick", tracker)
    /\ UNCHANGED <<settingsVars, ui>>

\* The viewer seeks or pauses while no call is in flight.
AssistEvent(event, currentTime) ==
    /\ NoCallInFlight
    /\ FreeCalls # {}
    /\ VideoEvent(event, currentTime, 1)

\* The response of a DETECT_CONFUSION call is dispatched on its port, and
\* handleConfusionDetected goes on when the call resolved.
AssistDeliver(c, msg) ==
    /\ PortDeliver(c, msg, FALSE)
    /\ ui' = IF calls[c].outcome = "pending" /\ calls'[c].outcome = "resolved"
               THEN handleConfusionResult(ui, calls'[c].value)
               ELSE ui
    /\ UNCHANGED <<tracker, emitted, lastCall, settingsVars>>

----------------------------------------------------------------------------
(* The settings *)

NoWrite == [kind |-> "nowrite"]
NotParsed == [kind |-> "notparsed"]
NoRead == [reader |-> "none", arg |-> Absent, result |-> Absent]
NoOp == [op |-> "none", arg |-> Absent, result |-> Absent]

Readers == {"isExtensionEnabled", "isFeatureEnabled", "getPreferences", "getAIConfig"}

\* what a StorageManager reader returns
ReadResult(reader, arg, st, df) ==
    CASE reader = "isExtensionEnabled" -> isExtensionEnabled(st)
      [] reader = "isFeatureEnabled" -> isFeatureEnabled(st, arg)
      [] reader = "getPreferences" -> getPreferences(st, df)
      [] reader = "getAIConfig" -> getAIConfig(st, df)

\* Code of the background calls a reader of the StorageManager.
Read(reader, arg) ==
    /\ inbox = {}
    /\ lastRead' = [reader |-> reader, arg |-> arg,
                    result |-> ReadResult(reader, arg, store, defaults)]
    /\ lastSent' = {}
    /\ UNCHANGED <<store, defaults, inbox, sawUnknown, clientVars, trackerVars, lastWrite,
                   recording, recorded, providerVars, storageVars, pageVars>>

\* lastWrite after the background has answered req
Written(req, run) ==
    [k \in StoreKeys |->
        IF /\ KeyOf(req.type) = "UPDATE_SETTINGS"
           /\ run.out.how = "returned"
           /\ KeyOf(Get(req.data, "key")) = k
          THEN Get(req.data, "value")
          ELSE IF run.store[k] # store[k] THEN NoWrite ELSE lastWrite[k]]

\* The background answers a settings request.
SettingsAnswer(req) ==
    /\ BgAnswer(req, "json")
    /\ lastWrite' = Written(req, HandlerRun(req, "json", store, defaults))
    /\ lastRead' = NoRead
    /\ UNCHANGED <<trackerVars, recording, recorded, providerVars, storageVars, pageVars>>

\* a RECORD_INTERACTION request of a context that is not modelled further
RecordRequest(id) ==
    [call |-> 0, transport |-> "port", type |-> Str(<<"RECORD_INTERACTION">>),
     data |-> Data1("interactionType", Str(<<"checklist">>)), requestId |-> id]

\* A RECORD_INTERACTION request arrives, possibly while another is handled.
RecordArrive(id) ==
    /\ recorded + Cardinality(inbox) < MaxRecords
    /\ RecordRequest(id) \notin inbox
    /\ inbox' = inbox \cup {RecordRequest(id)}
    /\ lastSent' = {}
    /\ UNCHANGED <<store, defaults, sawUnknown, clientVars, trackerVars,
                   lastWrite, lastRead, recording, recorded, providerVars, storageVars, pageVars>>

\* The request's handler runs up to the first await of recordInteraction:
\* getSetting('userData') is read.
RecordRead(req) ==
    /\ req \in inbox
    /\ \A h \in recording : h.req # req
    /\ recording' = recording \cup
                        {[req |-> req, stored |-> getSetting(store, Str(<<"userData">>))]}
    /\ UNCHANGED <<bgVars, clientVars, trackerVars, lastWrite, lastRead, recorded,
                   providerVars, storageVars, pageVars>>

\* The handler resumes: it counts, appends, writes userData, and the listener
\* posts {success: true}.
RecordWrite(h) ==
    /\ h \in recording
    /\ LET r == recordInteractionOn(store, defaults, h.stored,
                                    Get(h.req.data, "interactionType"))
           done == [kind |-> "obj", success |-> Bool(TRUE)]
       IN /\ store' = r.store
          /\ defaults' = r.defaults
          /\ lastSent' = {[req |-> h.req, out |-> Return(done),
                           resp |-> Envelope(h.req.requestId, Bool(TRUE), done, Absent)]}
    /\ recording' = recording \ {h}
    /\ inbox' = inbox \ {h.req}
    /\ recorded' = recorded + 1
    /\ UNCHANGED <<sawUnknown, clientVars, trackerVars, lastWrite, lastRead, providerVars, storageVars, pageVars>>

\* a TOGGLE_FEATURE request of a context that is not modelled further
ToggleRequest(f) ==
    [call |-> 0, transport |-> "oneshot", type |-> Str(<<"TOGGLE_FEATURE">>),
     data |-> Data1("featureName", Str(<<f>>)), requestId |-> NoId]

ToggledFeatures == {"focusMode", "autoPause"}

\* A TOGGLE_FEATURE request arrives, possibly while another is handled: at
\* most one for each feature until all of them are answered.
ToggleArrive(f) ==
    /\ LET quiet == inbox = {} /\ toggling = {}
           now == IF quiet THEN [before |-> getSetting(store, Str(<<"features">>)), done |-> {}]
                  ELSE round
       IN /\ f \notin now.done
          /\ ToggleRequest(f) \notin inbox
          /\ round' = now
    /\ inbox' = inbox \cup {ToggleRequest(f)}
    /\ lastSent' = {}
    /\ UNCHANGED <<store, defaults, sawUnknown, clientVars, trackerVars, lastWrite, lastRead,
                   recording, recorded, providerVars, lastOp, toggling, pageVars>>

\* The request's handler runs up to the await of toggleFeature:
\* getSetting('features') is read.
ToggleRead(req) ==
    /\ req \in inbox
    /\ \A h \in toggling : h.req # req
    /\ toggling' = toggling \cup
                       {[req |-> req, stored |-> getSetting(store, Str(<<"features">>))]}
    /\ UNCHANGED <<bgVars, clientVars, trackerVars, lastWrite, lastRead, recording, recorded,
                   providerVars, lastOp, round, pageVars>>

\* The handler resumes: it negates the entry, writes features, and the
\* listener sends {featureName, enabled}.
ToggleWrite(h) ==
    /\ h \in toggling
    /\ LET featureName == Get(h.req.data, "featureName")
           r == toggleFeatureOn(store, h.stored, featureName)
           done == [kind |-> "obj", featureName |-> featureName, enabled |-> r.result]
       IN /\ store' = r.store
          /\ lastSent' = {[req |-> h.req, out |-> Return(done),
                           resp |-> Envelope(NoId, Bool(TRUE), done, Absent)]}
          /\ round' = [round EXCEPT !.done = @ \cup {KeyOf(featureName)}]
    /\ toggling' = toggling \ {h}
    /\ inbox' = inbox \ {h.req}
    /\ UNCHANGED <<defaults, sawUnknown, clientVars, trackerVars, lastWrite, lastRead,
                   recording, recorded, providerVars, lastOp, pageVars>>

\* A method of the StorageManager, called by code of the background, has
\* completed: it left the store st and the defaults df and returned result.
StorageDone(op, arg, st, df, result) ==
    /\ store' = st
    /\ defaults' = df
    /\ lastOp' = [op |-> op, arg |-> arg, result |-> result]
    /\ UNCHANGED <<inbox, lastSent, sawUnknown, clientVars, trackerVars, lastWrite, lastRead,
                   recording, providerVars, toggleVars, pageVars>>

CallRecordInteraction(interactionType) ==
    /\ recorded < MaxRecords
    /\ LET r == recordInteraction(store, defaults, interactionType) IN
       StorageDone("recordInteraction", interactionType, r.store, r.defaults, Absent)
    /\ recorded' = recorded + 1

CallToggleFeature(featureName) ==
    /\ LET r == toggleFeature(store, featureName) IN
       StorageDone("toggleFeature", featureName, r.store, defaults, r.result)
    /\ UNCHANGED recorded

CallUpdatePreferences(newPreferences) ==
    /\ StorageDone("updatePreferences", newPreferences,
                   updatePreferences(store, defaults, newPreferences), defaults, Absent)
    /\ UNCHANGED recorded

CallUpdateAIConfig(config) ==
    /\ StorageDone("updateAIConfig", config,
                   updateAIConfig(store, defaults, config), defaults, Absent)
    /\ UNCHANGED recorded

CallClearAllData ==
    /\ StorageDone("clearAllData", Absent, clearAllData(store), defaults, Absent)
    /\ UNCHANGED recorded

CallInitializeDefaults ==
    /\ StorageDone("initializeDefaults", Absent, initializeDefaults(store, defaults),
                   defaults, Absent)
    /\ UNCHANGED recorded

CallSetExtensionEnabled(enabled) ==
    /\ StorageDone("setExtensionEnabled", enabled, setExtensionEnabled(store, enabled),
                   defaults, Absent)
    /\ UNCHANGED recorded

CallToggleExtensionEnabled ==
    /\ LET r == toggleExtensionEnabled(store) IN
       StorageDone("toggleExtensionEnabled", Absent, r.store, defaults, r.result)
    /\ UNCHANGED recorded

\* callLLM has the provider's text and turns it into its result.
ParseReply ==
    /\ parsed = NotParsed
    /\ parsed' = parseResultText(resultText)
    /\ UNCHANGED <<bgVars, clientVars, trackerVars, lastWrite, lastRead, recording, recorded,
                   resultText, storageVars, pageVars>>

PartialFeatures == [kind |-> "obj", focusMode |-> Bool(TRUE)]

\* the settings requests of the popup and the content script
SettingsRequests ==
    {Req("GET_SETTINGS", d) :
        d \in {Absent} \cup {Data1("keys", List(<<Str(<<k>>)>>)) :
                                k \in {"extensionEnabled", "features", "theme"}}}
    \cup {Req("UPDATE_SETTINGS", [kind |-> "obj", key |-> Str(<<"features">>),
                                  value |-> PartialFeatures]),
          Req("UPDATE_SETTINGS", [kind |-> "obj", key |-> Str(<<"extensionEnabled">>),
                                  value |-> Bool(FALSE)]),
          Req("UPDATE_SETTINGS", [kind |-> "obj", key |-> Str(<<"theme">>),
                                  value |-> Str(<<"dark">>)]),
          Req("TOGGLE_FEATURE", Data1("featureName", Str(<<"focusMode">>))),
          Req("TOGGLE_FEATURE", Data1("featureName", Str(<<"autoPause">>)))}

----------------------------------------------------------------------------
(* content.js: the PersonalizedVideoLearning object of one tab.  trackers are  *)
(* the BehaviorTrackers it created, behaviorTracker the index of the one its   *)
(* field refers to (0 for null); inits holds, for every init() call that       *)
(* passed the guard, the await it is suspended at; pending are the new values  *)
(* of extensionEnabled whose change notification has not been dispatched yet.  *)

NoUIMessage == [type |-> "none", handled |-> 0, changed |-> FALSE, requests |-> 0]

\* the constructor, on a page with or without a video element
NewPage(hasVideo) ==
    [isInitialized |-> FALSE, behaviorTracker |-> 0, trackers |-> <<>>,
     messageListeners |-> 0,   \* window 'message' listeners added
     changeListeners |-> 0,    \* chrome.storage.onChanged listeners added
     observers |-> 0,          \* MutationObservers observing
     hasVideo |-> hasVideo,
     inits |-> <<>>,
     pending |-> <<>>,
     changes |-> 0,            \* changes of extensionEnabled made so far
     failed |-> FALSE,         \* a settings read or the UI injection has failed
     focusMode |-> FALSE,      \* overlayManager.isFocusModeActive
     paused |-> FALSE,         \* video.paused
     lastUI |-> NoUIMessage]   \* the last message of the page UI and what it caused

\* init() up to its first await: the guard, then getSettings(['extensionEnabled'])
initCall(pg) ==
    IF pg.isInitialized THEN pg ELSE [pg EXCEPT !.inits = Append(@, "awaitEnabled")]

\* init() resumed with the value of extensionEnabled (ok: the read succeeded)
initAfterEnabled(pg, i, val, ok) ==
    LET enabled == IF ok /\ val.kind = "bool" THEN val.b ELSE TRUE
        seen == [pg EXCEPT !.failed = @ \/ ~ok]
    IN IF ~enabled THEN [seen EXCEPT !.inits[i] = "done"]
       ELSE IF ~pg.hasVideo
         THEN [seen EXCEPT !.inits[i] = "done", !.observers = @ + 1]
       ELSE [seen EXCEPT !.inits[i] = "awaitSettings"]

\* init() resumed with the settings: the controllers, setupEventListeners(),
\* then uiManager.injectUI()
initAfterSettings(pg, i, ok) ==
    IF ~ok THEN [pg EXCEPT !.inits[i] = "done", !.failed = TRUE]
    ELSE [pg EXCEPT !.trackers = Append(@, NewTracker),
                    !.behaviorTracker = Len(pg.trackers) + 1,
                    !.focusMode = FALSE,
                    !.messageListeners = @ + 1,
                    !.changeListeners = @ + 1,
                    !.inits[i] = "awaitInject"]

\* init() resumed after injectUI(): this.behaviorTracker.start(),
\* isInitialized = true, EXTENSION_READY
initAfterInject(pg, i, ok) ==
    IF ~ok THEN [pg EXCEPT !.inits[i] = "done", !.failed = TRUE]
    ELSE [pg EXCEPT !.trackers[pg.behaviorTracker] = start(@),
                    !.isInitialized = TRUE,
                    !.inits[i] = "done"]

\* cleanup(): behaviorTracker.stop(), uiManager.cleanup(), overlayManager.cleanup()
cleanup(pg) ==
    IF pg.behaviorTracker = 0 THEN pg
    ELSE [pg EXCEPT !.trackers[pg.behaviorTracker] = stop(@), !.focusMode = FALSE]

\* one chrome.storage.onChanged listener, for changes.extensionEnabled
onChanged(pg, newVal) ==
    IF ~Truthy(newVal) /\ pg.isInitialized THEN [cleanup(pg) EXCEPT !.isInitialized = FALSE]
    ELSE IF Truthy(newVal) /\ ~pg.isInitialized THEN initCall(pg)
    ELSE pg

\* the change is dispatched to the n listeners the content script has added
RECURSIVE dispatchChange(_, _, _)
dispatchChange(pg, newVal, n) ==
    IF n = 0 THEN pg ELSE dispatchChange(onChanged(pg, newVal), newVal, n - 1)

\* the callbacks of the n MutationObservers that are observing
RECURSIVE observerCallbacks(_, _)
observerCallbacks(pg, n) ==
    IF n = 0 THEN pg
    ELSE observerCallbacks(IF pg.hasVideo /\ ~pg.isInitialized
                             THEN initCall([pg EXCEPT !.observers = @ - 1])
                             ELSE pg,
                           n - 1)

UIToggles == {"PVL_TOGGLE_FOCUS_MODE", "PVL_TOGGLE_PAUSE"}
UIRequests == {"PVL_HIGHLIGHT_OBJECT", "PVL_SIMPLIFY_TEXT", "PVL_GENERATE_CHECKLIST"}
UIMessageTypes == UIToggles \cup UIRequests \cup {"PVL_SEEK_TO"}

\* handleUIMessage(type, data)
handleUIMessage(pg, type) ==
    LET handled == [pg EXCEPT !.lastUI.handled = @ + 1] IN
    CASE type = "PVL_TOGGLE_FOCUS_MODE" -> [handled EXCEPT !.focusMode = ~@]
      [] type = "PVL_TOGGLE_PAUSE" -> [handled EXCEPT !.paused = ~@]
      [] type \in UIRequests -> [handled EXCEPT !.lastUI.requests = @ + 1]
      [] OTHER -> handled

\* window dispatches the message to the n 'message' listeners
RECURSIVE dispatchUIMessage(_, _, _)
dispatchUIMessage(pg, type, n) ==
    IF n = 0 THEN pg ELSE dispatchUIMessage(handleUIMessage(pg, type), type, n - 1)

notPageVars == <<defaults, inbox, lastSent, sawUnknown, clientVars, trackerVars, lastWrite,
                 lastRead, recording, recorded, providerVars, storageVars>>

Suspended(at) == {i \in DOMAIN page.inits : page.inits[i] = at}

\* pvl.init() is called: at load, or by a FORCE_INIT message of the popup.
InitCalled ==
    /\ page' = initCall(page)
    /\ Len(page'.inits) <= MaxInits
    /\ UNCHANGED <<store, notPageVars>>

\* The response to getSettings(['extensionEnabled']) resumes an init() call.
InitEnabledRead(i, ok) ==
    /\ i \in Suspended("awaitEnabled")
    /\ page' = initAfterEnabled(page, i, getSetting(store, Str(<<"extensionEnabled">>)), ok)
    /\ UNCHANGED <<store, notPageVars>>

\* The response to getSettings() resumes an init() call.
InitSettingsRead(i, ok) ==
    /\ i \in Suspended("awaitSettings")
    /\ page' = initAfterSettings(page, i, ok)
    /\ UNCHANGED <<store, notPageVars>>

\* injectUI() settles and resumes an init() call.
InitInjected(i, ok) ==
    /\ i \in Suspended("awaitInject")
    /\ page' = initAfterInject(page, i, ok)
    /\ UNCHANGED <<store, notPageVars>>

\* The popup changes extensionEnabled: the store is written and a change
\* notification is on its way to the content script.
ChangeEnabled(enabled) ==
    /\ page.changes < MaxChanges
    /\ getSetting(store, Str(<<"extensionEnabled">>)) # enabled
    /\ store' = setExtensionEnabled(store, enabled)
    /\ page' = [page EXCEPT !.pending = Append(@, enabled), !.changes = @ + 1]
    /\ UNCHANGED notPageVars

\* chrome.storage.onChanged fires in the content script.
ChangeNotified ==
    /\ page.pending # <<>>
    /\ page' = dispatchChange([page EXCEPT !.pending = Tail(@)], Head(page.pending),
                              page.changeListeners)
    /\ Len(page'.inits) <= MaxInits
    /\ UNCHANGED <<store, notPageVars>>

\* A video element is added to the page: the MutationObservers run.
VideoAdded ==
    /\ ~page.hasVideo
    /\ page' = observerCallbacks([page EXCEPT !.hasVideo = TRUE], page.observers)
    /\ Len(page'.inits) <= MaxInits
    /\ UNCHANGED <<store, notPageVars>>

\* The injected UI posts a message to the content script.
UIMessage(type) ==
    /\ page.isInitialized
    /\ LET before == [page EXCEPT !.lastUI = [NoUIMessage EXCEPT !.type = type]]
           after == dispatchUIMessage(before, type, page.messageListeners)
       IN page' = [after EXCEPT !.lastUI.changed =
                       IF type = "PVL_TOGGLE_FOCUS_MODE" THEN after.focusMode # page.focusMode
                       ELSE after.paused # page.paused]
    /\ UNCHANGED <<store, notPageVars>>

----------------------------------------------------------------------------
(* Specifications *)

InstalledStore(key) ==
    [initializeDefaults(EmptyStore, ConstructorDefaults) EXCEPT !["geminiApiKey"] = key]

InitTracker ==
    /\ tracker = NewTracker
    /\ emitted = <<>>
    /\ lastCall = Called("new", NewTracker)
    /\ ui = <<>>

InitStorage ==
    /\ lastOp = NoOp
    /\ toggling = {}
    /\ round = [before |-> Absent, done |-> {}]
    /\ page = NewPage(TRUE)

InitSettings ==
    /\ lastWrite = [k \in StoreKeys |-> NoWrite]
    /\ lastRead = NoRead
    /\ recording = {}
    /\ recorded = 0
    /\ resultText = <<"n">>
    /\ parsed = NotParsed
    /\ InitStorage

\* Transport: the content script's calls against the background.
Init ==
    /\ store = InstalledStore(RealKey)
    /\ defaults = ConstructorDefaults
    /\ inbox = {}
    /\ lastSent = {}
    /\ sawUnknown = FALSE
    /\ calls = [c \in CallIds |-> IdleCall]
    /\ chan = [c \in CallIds |-> {}]
    /\ respOrder = <<>>
    /\ InitTracker
    /\ InitSettings

Next ==
    /\ UNCHANGED <<trackerVars, settingsVars>>
    /\ \/ \E c \in CallIds, ok \in BOOLEAN :
             \E rq \in ClientRequests(c), id \in IdChoices(c) : SendMessage(c, rq, id, ok)
       \/ \E c \in CallIds, msg \in TransportErrors, ok \in BOOLEAN :
             \E id \in IdChoices(c) : OneShotError(c, msg, id, ok)
       \/ \E c \in CallIds : \E response \in chan[c] : OneShotCallback(c, response)
       \/ \E c \in CallIds : RetryTimer(c)
       \/ \E c \in CallIds, again \in BOOLEAN : \E msg \in chan[c] : PortDeliver(c, msg, again)
       \/ \E c \in CallIds : TimeoutFires(c)
       \/ \E c \in CallIds : \E msg \in StrayMessages(calls[c]) : PortNoise(c, msg)
       \/ \E req \in inbox, env \in {"json", "notext"} : BgAnswer(req, env)
       \/ BgRestart

Spec == Init /\ [][Next]_vars

\* The same with the timers of the page firing: a timeout armed with setTimeout
\* and not cleared does run.
FairSpec ==
    Spec /\ \A c \in CallIds :
               WF_vars(TimeoutFires(c) /\ UNCHANGED <<trackerVars, settingsVars>>)

\* Strategy: one call of the content script of any type, and the popup's
\* requests, against the background.
NextStrategy ==
    /\ UNCHANGED <<trackerVars, settingsVars>>
    /\ \/ \E rq \in ContentRequests, ok \in BOOLEAN : SendMessage(1, rq, 1, ok)
       \/ \E msg \in TransportErrors, ok \in BOOLEAN : OneShotError(1, msg, 1, ok)
       \/ \E response \in chan[1] : OneShotCallback(1, response)
       \/ RetryTimer(1)
       \/ \E msg \in chan[1] : PortDeliver(1, msg, FALSE)
       \/ TimeoutFires(1)
       \/ \E rq \in PopupRequests : PopupSend(rq)
       \/ \E req \in inbox : BgAnswer(req, "json")

SpecStrategy == Init /\ [][NextStrategy]_vars

\* Responder: the background answers requests one after another.
InitResponder ==
    /\ store \in {InstalledStore(k) : k \in {Absent, Str(<<>>), GEMINI_API_KEY, RealKey}}
    /\ defaults = ConstructorDefaults
    /\ inbox = {}
    /\ lastSent = {}
    /\ sawUnknown = FALSE
    /\ calls = [c \in CallIds |-> IdleCall]
    /\ chan = [c \in CallIds |-> {}]
    /\ respOrder = <<>>
    /\ InitTracker
    /\ InitSettings

NextResponder ==
    /\ UNCHANGED <<trackerVars, settingsVars>>
    /\ \/ \E transport \in {"port", "oneshot"}, rq \in ResponderRequests, id \in RequestIds :
             Arrive(transport, rq, id)
       \/ \E req \in inbox, env \in ProviderOutcomes : BgAnswer(req, env)

SpecResponder == InitResponder /\ [][NextResponder]_vars

\* Confusion scoring: the background answers DETECT_CONFUSION on every sample.
NextConfusion ==
    /\ UNCHANGED <<trackerVars, settingsVars>>
    /\ \/ \E transport \in {"port", "oneshot"}, rq \in ConfusionRequests, id \in RequestIds :
             Arrive(transport, rq, id)
       \/ \E req \in inbox, env \in ProviderOutcomes : BgAnswer(req, env)

SpecConfusion == InitResponder /\ [][NextConfusion]_vars

\* Validation: the background answers requests that lack their data field.
NextValidation ==
    /\ UNCHANGED <<trackerVars, settingsVars>>
    /\ \/ \E transport \in {"port", "oneshot"}, rq \in IncompleteRequests, id \in RequestIds :
             Arrive(transport, rq, id)
       \/ \E req \in inbox, env \in ProviderOutcomes : BgAnswer(req, env)

SpecValidation == InitResponder /\ [][NextValidation]_vars

\* Tracker: one BehaviorTracker on a video that plays, jumps, pauses and
\* changes rate, started and stopped by the page.
InitTrackerSpec ==
    /\ store = InstalledStore(RealKey)
    /\ defaults = ConstructorDefaults
    /\ inbox = {}
    /\ lastSent = {}
    /\ sawUnknown = FALSE
    /\ calls = [c \in CallIds |-> IdleCall]
    /\ chan = [c \in CallIds |-> {}]
    /\ respOrder = <<>>
    /\ InitTracker
    /\ InitSettings

NextTracker ==
    \/ Start
    \/ Stop
    \/ \E event \in PlaybackEvents \ {"ratechange"}, currentTime \in Positions :
          VideoEvent(event, currentTime, 1)
    \/ \E rate \in PlaybackRates : VideoEvent("ratechange", tracker.lastPosition, rate)
    \/ \E currentTime \in Positions : Tick(currentTime)

SpecTracker == InitTrackerSpec /\ [][NextTracker]_vars

\* Settings: the background answers settings requests, and its own code reads
\* settings, on a store that is empty or holds the installed defaults.
InitSettingsSpec ==
    /\ store \in {EmptyStore, InstalledStore(Absent)}
    /\ defaults = ConstructorDefaults
    /\ inbox = {}
    /\ lastSent = {}
    /\ sawUnknown = FALSE
    /\ calls = [c \in CallIds |-> IdleCall]
    /\ chan = [c \in CallIds |-> {}]
    /\ respOrder = <<>>
    /\ InitTracker
    /\ InitSettings

NextSettings ==
    \/ \E transport \in {"port", "oneshot"}, rq \in SettingsRequests :
          Arrive(transport, rq, 1) /\ UNCHANGED <<trackerVars, settingsVars>>
    \/ \E req \in inbox : SettingsAnswer(req)
    \/ \E reader \in Readers \ {"isFeatureEnabled"} : Read(reader, Absent)
    \/ \E f \in FeatureNames : Read("isFeatureEnabled", Str(<<f>>))

SpecSettings == InitSettingsSpec /\ [][NextSettings]_vars

\* Assistance: a started tracker on a video the viewer seeks and pauses, the
\* content script's DETECT_CONFUSION calls and its messages to the page UI.
NextAssist ==
    \/ Start
    \/ \E currentTime \in {0, MaxPosition} : AssistEvent("timeupdate", currentTime)
    \/ AssistEvent("pause", tracker.lastPosition)
    \/ AssistTick
    \/ \E c \in CallIds : \E msg \in chan[c] : AssistDeliver(c, msg)
    \/ \E c \in CallIds : TimeoutFires(c) /\ UNCHANGED <<trackerVars, settingsVars>>
    \/ \E req \in inbox : BgAnswer(req, "json") /\ UNCHANGED <<trackerVars, settingsVars>>
    \/ BgRestart /\ UNCHANGED <<trackerVars, settingsVars>>

SpecAssist == Init /\ [][NextAssist]_vars

\* The same with the interval, the port's message dispatch and the timeouts
\* of the page running.
FairAssist ==
    /\ SpecAssist
    /\ WF_vars(AssistTick)
    /\ \A c \in CallIds :
          /\ WF_vars(\E msg \in chan[c] : AssistDeliver(c, msg))
          /\ WF_vars(TimeoutFires(c) /\ UNCHANGED <<trackerVars, settingsVars>>)

\* Extraction: callLLM on every provider text of the model.
InitExtraction ==
    /\ store = InstalledStore(RealKey)
    /\ defaults = ConstructorDefaults
    /\ inbox = {}
    /\ lastSent = {}
    /\ sawUnknown = FALSE
    /\ calls = [c \in CallIds |-> IdleCall]
    /\ chan = [c \in CallIds |-> {}]
    /\ respOrder = <<>>
    /\ InitTracker
    /\ lastWrite = [k \in StoreKeys |-> NoWrite]
    /\ lastRead = NoRead
    /\ recording = {}
    /\ recorded = 0
    /\ resultText \in Texts
    /\ parsed = NotParsed
    /\ InitStorage

NextExtraction == ParseReply

SpecExtraction == InitExtraction /\ [][NextExtraction]_vars

\* Interactions: RECORD_INTERACTION requests whose handlers may overlap.
NextInteractions ==
    \/ \E id \in RequestIds : RecordArrive(id)
    \/ \E req \in inbox : RecordRead(req)
    \/ \E h \in recording : RecordWrite(h)

SpecInteractions == InitSettingsSpec /\ [][NextInteractions]_vars

\* Replies: ANALYZE_FRAME and GENERATE_CHECKLIST answered from a provider
\* reply with any text.
NextReplies ==
    \/ \E transport \in {"port", "oneshot"}, rq \in ReplyRequests :
          Arrive(transport, rq, 1) /\ UNCHANGED <<trackerVars, settingsVars>>
    \/ \E req \in inbox : TextAnswer(req)

SpecReplies == InitExtraction /\ [][NextReplies]_vars

\* Page: the content script of a tab, loaded with or without a video on the
\* page while extensionEnabled is true or false; pvl.init() has been called.
InitPage ==
    /\ store \in {InstalledStore(RealKey),
                   setExtensionEnabled(InstalledStore(RealKey), Bool(FALSE))}
    /\ defaults = ConstructorDefaults
    /\ inbox = {}
    /\ lastSent = {}
    /\ sawUnknown = FALSE
    /\ calls = [c \in CallIds |-> IdleCall]
    /\ chan = [c \in CallIds |-> {}]
    /\ respOrder = <<>>
    /\ InitTracker
    /\ lastWrite = [k \in StoreKeys |-> NoWrite]
    /\ lastRead = NoRead
    /\ recording = {}
    /\ recorded = 0
    /\ resultText = <<"n">>
    /\ parsed = NotParsed
    /\ lastOp = NoOp
    /\ toggling = {}
    /\ round = [before |-> Absent, done |-> {}]
    /\ page \in {initCall(NewPage(hasVideo)) : hasVideo \in BOOLEAN}

NextPage ==
    \/ InitCalled
    \/ \E i \in DOMAIN page.inits, ok \in BOOLEAN : InitEnabledRead(i, ok)
    \/ \E i \in DOMAIN page.inits, ok \in BOOLEAN : InitSettingsRead(i, ok)
    \/ \E i \in DOMAIN page.inits, ok \in BOOLEAN : InitInjected(i, ok)
    \/ \E b \in BOOLEAN : ChangeEnabled(Bool(b))
    \/ ChangeNotified
    \/ VideoAdded
    \/ \E type \in UIMessageTypes : UIMessage(type)

SpecPage == InitPage /\ [][NextPage]_vars

\* Toggles: TOGGLE_FEATURE requests for different features whose handlers may
\* overlap.
NextToggles ==
    \/ \E f \in ToggledFeatures : ToggleArrive(f)
    \/ \E req \in inbox : ToggleRead(req)
    \/ \E h \in toggling : ToggleWrite(h)

SpecToggles == InitSettingsSpec /\ [][NextToggles]_vars

\* Storage: the methods of the StorageManager, called one after the other on a
\* store that is empty or holds the installed defaults.
NextStorage ==
    \/ CallRecordInteraction(Str(<<"checklist">>))
    \/ \E f \in {"focusMode", "autoPause"} : CallToggleFeature(Str(<<f>>))
    \/ CallUpdatePreferences(Data1("fontSize", Str(<<"large">>)))
    \/ CallUpdateAIConfig(Data1("useMockAI", Bool(FALSE)))
    \/ CallClearAllData
    \/ CallInitializeDefaults
    \/ \E b \in BOOLEAN : CallSetExtensionEnabled(Bool(b))
    \/ CallToggleExtensionEnabled

SpecStorage == InitSettingsSpec /\ [][NextStorage]_vars

----------------------------------------------------------------------------
(* Properties of the background's responses *)

TypeName(req) == Text(req.type)[1]
HasHandler(req) == TypeName(req) \in HandlerTypes
Names(error, word) == error.kind = "str" /\ \E i \in DOMAIN error.s : error.s[i] = word
Meaningless(v) == v \in {Absent, Null}

C8_OutcomeNormalized ==
    \A x \in lastSent :
        /\ x.out.how = "threw" =>
              x.resp.success = Bool(FALSE) /\ x.resp.error = Str(x.out.msg)
        /\ x.out.how = "returned" =>
              x.resp.success = Bool(TRUE) /\ x.resp.data = x.out.val

C8_Witness ==
    \E x \in lastSent :
        /\ x.req.transport = "port"
        /\ TypeName(x.req) = "SIMPLIFY_TEXT"
        /\ x.out.how = "threw"
        /\ x.resp.error = Str(<<"No text provided for simplification">>)

\* C9: every response the background sends has a boolean success that gates the
\* payload: with success true the error is absent or null; with success false
\* the error is a non-empty string and the data is absent or null.
C9_SuccessGatesPayload ==
    \A x \in lastSent :
        /\ x.resp.success.kind = "bool"
        /\ x.resp.success.b => Meaningless(x.resp.error)
        /\ ~x.resp.success.b =>
              /\ x.resp.error.kind = "str"
              /\ x.resp.error.s # <<>>
              /\ \A i \in DOMAIN x.resp.error.s : x.resp.error.s[i] # ""
              /\ Meaningless(x.resp.data)
        /\ ~(~Meaningless(x.resp.data) /\ ~Meaningless(x.resp.error))

C9_Witness ==
    \E x \in lastSent :
        /\ x.req.transport = "port"
        /\ TypeName(x.req) = "ANALYZE_FRAME"
        /\ x.out.how = "gaveup"
        /\ x.resp.success = Bool(FALSE)
        /\ x.resp.data = Null

\* C10: for a Behavior sample with non-negative integer counts, DETECT_CONFUSION
\* returns confusionScore = rewindCount*2 + pauseCount, isConfused =
\* (confusionScore >= 3) and suggestedIntervention = the fixed list of three
\* interventions when confused and null otherwise, whatever else the sample holds.
C10_ConfusionScoring ==
    \A x \in lastSent :
        TypeName(x.req) = "DETECT_CONFUSION" =>
            LET b == Get(x.req.data, "userBehavior")
                r == b.rewindCount.n
                p == b.pauseCount.n
                d == x.resp.data
            IN /\ x.resp.success = Bool(TRUE)
               /\ d.confusionScore = Num(r * 2 + p)
               /\ d.isConfused = Bool(r * 2 + p >= 3)
               /\ d.suggestedIntervention =
                     IF r * 2 + p >= 3
                       THEN List(<<"vocabulary_simplification", "step_breakdown",
                                   "pause_assistance">>)
                       ELSE Null
               /\ (r = 3 /\ p = 0) => d.isConfused = Bool(TRUE) /\ d.confusionScore = Num(6)
               /\ (r = 0 /\ p = 2) => d.isConfused = Bool(FALSE) /\ d.confusionScore = Num(2)

C10_Witness ==
    \E x \in lastSent :
        /\ TypeName(x.req) = "DETECT_CONFUSION"
        /\ Get(x.req.data, "userBehavior").rewindCount = Num(3)
        /\ Get(x.req.data, "userBehavior").pauseCount = Num(0)
        /\ x.resp.data.isConfused = Bool(TRUE)
        /\ x.resp.data.confusionScore = Num(6)

----------------------------------------------------------------------------
(* Properties of the client's calls *)

Pending(cl) == cl.outcome = "pending"
Settles(cl, nx) == Pending(cl) /\ ~Pending(nx)
OnFallback(cl) == cl.path = "message" /\ cl.log # <<>> /\ cl.log[Len(cl.log)] = "port"

\* C1: on both persistent-channel paths a call is resolved or rejected by an
\* incoming message only if the message carries the call's requestId; a message
\* with another requestId or none leaves the call pending, its port connected
\* and its timeout armed.
C1_OnlyMatchingIdSettles ==
    [][\A c \in CallIds :
          /\ \A msg \in StrayMessages(calls[c]) :
                PortNoise(c, msg) =>
                    /\ calls'[c].outcome = calls[c].outcome
                    /\ calls'[c].portState = "open"
                    /\ calls'[c].listener
                    /\ calls'[c].timer = calls[c].timer
                    /\ calls'[c].timer \in {45000, 15000}
          /\ (calls[c].phase = "port" /\ Settles(calls[c], calls'[c])) =>
                \/ TimeoutFires(c)
                \/ \E msg \in chan[c], again \in BOOLEAN :
                      PortDeliver(c, msg, again) /\ msg.requestId = calls[c].requestId
      ]_vars

C1_Witness ==
    /\ OnFallback(calls[1]) /\ calls[1].ignored = 1 /\ Pending(calls[1])
    /\ calls[1].portState = "open" /\ calls[1].timer = 15000
    /\ calls[2].path = "port" /\ calls[2].ignored = 1 /\ Pending(calls[2])
    /\ calls[2].portState = "open" /\ calls[2].timer = 45000

OneShots(log) == Cardinality({i \in DOMAIN log : log[i] = "oneshot"})
TransientText(msg) == msg \in {ContextInvalidatedMsg, PortClosedMsg}

\* C2: in sendViaMessage the sends are one-shot sends followed by at most one
\* port send, which is the last send; when every one-shot send failed with a
\* transient error the port send comes after the initial send and exactly 3
\* retries; after a one-shot send that failed with a non-transient error no
\* one-shot send is made any more.
C2_RetryThenFallback ==
    \A c \in CallIds :
        calls[c].path = "message" =>
            LET cl == calls[c]
                n == OneShots(cl.log)
            IN /\ n <= 4
               /\ \A i \in DOMAIN cl.log : cl.log[i] = "port" <=> i = n + 1
               /\ Len(cl.log) <= n + 1
               /\ (OnFallback(cl) /\ TransientText(cl.lastError)) =>
                     cl.log = <<"oneshot", "oneshot", "oneshot", "oneshot", "port">>
               /\ (cl.nErrors > 0 /\ ~TransientText(cl.lastError)) =>
                     /\ cl.phase \notin {"oneshot", "backoff"}
                     /\ n = cl.nErrors

C2_Witness ==
    /\ calls[1].log = <<"oneshot", "oneshot", "oneshot", "oneshot", "port">>
    /\ calls[1].lastError = PortClosedMsg
    /\ calls[1].nErrors = 4

\* the payloads the background can compute for the call's own request
OwnPayloads(c) ==
    {ListenerResponse(r, env, store, defaults).data :
        r \in {PortRequest(c, calls[c]), OneShotRequest(c, calls[c])},
        env \in ProviderOutcomes}

\* C3: concurrent calls, also of the same type and answered in the opposite
\* order, each resolve with the payload the background computed for their own
\* request, never with the payload of another call.
C3_OwnPayload ==
    \A c \in CallIds :
        calls[c].outcome = "resolved" =>
            /\ calls[c].value \in OwnPayloads(c)
            /\ KeyOf(calls[c].type) = "DETECT_CONFUSION" =>
                  calls[c].value.confusionScore.n =
                      2 * Get(calls[c].data, "userBehavior").rewindCount.n
                        + Get(calls[c].data, "userBehavior").pauseCount.n
            /\ \A d \in CallIds \ {c} :
                  (calls[d].type = calls[c].type /\ calls[d].data # calls[c].data
                     /\ calls[d].phase # "idle")
                      => calls[c].value \notin OwnPayloads(d)

C3_Witness ==
    /\ calls[1].type = calls[2].type
    /\ calls[1].data # calls[2].data
    /\ calls[1].requestId = calls[2].requestId
    /\ respOrder = <<2, 1>>
    /\ calls[1].outcome = "resolved" /\ calls[1].value.confusionScore = Num(6)
    /\ calls[2].outcome = "resolved" /\ calls[2].value.confusionScore = Num(2)

\* C4: every persistent-channel call settles.  While it waits, its timeout is
\* armed (45 s on the primary path, 15 s on the fallback); when the timeout fires
\* on a pending call the call rejects and its port is disconnected; so the call
\* settles even when no response ever arrives.
C4_PortCallSettles ==
    /\ [](\A c \in CallIds :
             (calls[c].phase = "port" /\ Pending(calls[c])) =>
                 calls[c].timer = IF calls[c].path = "port" THEN 45000 ELSE 15000)
    /\ [][\A c \in CallIds :
             (TimeoutFires(c) /\ Pending(calls[c])) =>
                 /\ calls'[c].outcome = "rejected"
                 /\ calls'[c].portState = "closed"
                 /\ ~calls'[c].listener]_vars
    /\ \A c \in CallIds : (calls[c].phase = "port") ~> ~Pending(calls[c])

C4_Witness ==
    \E c \in CallIds :
        /\ calls[c].path = "port"
        /\ calls[c].outcome = "rejected"
        /\ calls[c].error = <<"Timeout waiting for port response (> 45s)">>
        /\ calls[c].portState = "closed"
        /\ calls[c].consumed = 0
        /\ inbox = {}
        /\ respOrder = <<>>

\* C5: on both paths at most one response is consumed per call; the message
\* that is consumed settles the call and, in the same step, removes the
\* listener and disconnects the port; after that nothing more is done on the
\* port, and nothing changes the outcome of a settled call.
C5_SingleConsumption ==
    [][\A c \in CallIds :
          LET cl == calls[c]
              nx == calls'[c]
          IN /\ nx.consumed <= 1
             /\ nx.consumed = cl.consumed + 1 =>
                   ~nx.listener /\ nx.portState = "closed" /\ ~Pending(nx)
             /\ cl.consumed = 1 =>
                   /\ nx.disconnects = cl.disconnects
                   /\ nx.portState = cl.portState
                   /\ nx.listener = cl.listener
             /\ ~Pending(cl) =>
                   nx.outcome = cl.outcome /\ nx.value = cl.value /\ nx.error = cl.error
      ]_vars

\* the same, for the calls that sendViaPort makes
PrimarySingleConsumption ==
    [][\A c \in CallIds :
          calls[c].path = "port" =>
             /\ calls'[c].consumed <= 1
             /\ calls[c].consumed = 1 => calls'[c].disconnects = calls[c].disconnects
      ]_vars

----------------------------------------------------------------------------
(* Properties of the BehaviorTracker *)

BehaviorOf(t) ==
    [rewindCount |-> t.rewindCount, pauseCount |-> t.pauseCount,
     playbackSpeedChanges |-> t.playbackSpeedChanges,
     segmentWatchTimes |-> t.segmentWatchTimes, lastPosition |-> t.lastPosition]
Emits(events, name) == \E i \in DOMAIN events : events[i].event = name
Bumped(before, after, by) == after = before + by

\* C11: on every periodic tick 'confusion-detected' is emitted if and only if
\* rewindCount >= 3 or pauseCount >= 5 at that moment, whatever
\* playbackSpeedChanges is; the payload carries the two counts as they were
\* before the reset, the current position and the whole segment-visit map.
C11_TickTripsOnCounts ==
    [][\A p \in Positions :
          Tick(p) =>
             IF tracker.rewindCount >= 3 \/ tracker.pauseCount >= 5
               THEN emitted' = <<[event |-> "confusion-detected",
                                  data |-> [rewindCount |-> tracker.rewindCount,
                                            pauseCount |-> tracker.pauseCount,
                                            currentTimestamp |-> p,
                                            watchedSegments |-> tracker.segmentWatchTimes]]>>
               ELSE ~Emits(emitted', "confusion-detected")
      ]_vars

C11_Witness ==
    /\ lastCall.op = "tick"
    /\ Len(emitted) = 1
    /\ emitted[1].event = "confusion-detected"
    /\ emitted[1].data.pauseCount = 5
    /\ emitted[1].data.rewindCount < 3
    /\ emitted[1].data.currentTimestamp = 9
    /\ emitted[1].data.watchedSegments # <<>>

\* C12: right after a tick that trips, rewindCount, pauseCount and
\* playbackSpeedChanges are 0 and segmentWatchTimes and lastPosition are what
\* they were before it; a tick that does not trip changes nothing of the sample.
C12_TripResetsCountsOnly ==
    [][\A p \in Positions :
          Tick(p) =>
             IF tracker.rewindCount >= 3 \/ tracker.pauseCount >= 5
               THEN /\ tracker'.rewindCount = 0
                    /\ tracker'.pauseCount = 0
                    /\ tracker'.playbackSpeedChanges = 0
                    /\ tracker'.segmentWatchTimes = tracker.segmentWatchTimes
                    /\ tracker'.lastPosition = tracker.lastPosition
               ELSE BehaviorOf(tracker') = BehaviorOf(tracker)
      ]_vars

C12_Witness ==
    /\ lastCall.op = "tick"
    /\ Emits(emitted, "confusion-detected")
    /\ emitted[1].data.rewindCount = 3
    /\ tracker.rewindCount = 0 /\ tracker.pauseCount = 0 /\ tracker.playbackSpeedChanges = 0
    /\ tracker.segmentWatchTimes # <<>>
    /\ tracker.segmentWatchTimes = emitted[1].data.watchedSegments
    /\ tracker.lastPosition # 0

\* what C13 says of one position update from q to p
TimeUpdateEffect(p) ==
    LET q == tracker.lastPosition
        back == IF p < q - 5 THEN 1 ELSE 0
        segment == (p \div 10) * 10
    IN /\ Bumped(tracker.rewindCount, tracker'.rewindCount, back)
       /\ Emits(emitted', "rewind") <=> back = 1
       /\ Bumped(Visits(tracker, segment), Visits(tracker', segment), 1)
       /\ \A g \in (DOMAIN tracker.segmentWatchTimes \cup DOMAIN tracker'.segmentWatchTimes)
                     \ {segment} : Visits(tracker', g) = Visits(tracker, g)
       /\ tracker'.lastPosition = p
       /\ tracker'.pauseCount = tracker.pauseCount
       /\ tracker'.playbackSpeedChanges = tracker.playbackSpeedChanges

\* C13: on every playback-position update from q to p, rewindCount grows by 1
\* and 'rewind' is emitted exactly when p < q - 5; in every case the visit count
\* of the segment floor(p/10)*10 grows by exactly 1, no other segment changes and
\* lastPosition becomes p.
C13_PositionUpdate ==
    [][\A p \in Positions, rate \in PlaybackRates :
          VideoEvent("timeupdate", p, rate) => TimeUpdateEffect(p)]_vars

\* The same for a tracker that has subscribed to the video once.
SingleSubscriptionPositionUpdate ==
    [][\A p \in Positions, rate \in PlaybackRates :
          (tracker.subscriptions = 1 /\ VideoEvent("timeupdate", p, rate))
              => TimeUpdateEffect(p)]_vars

\* what C14 says of one pause, play or rate-change event
PlaybackEventEffect(event) ==
    /\ Bumped(tracker.pauseCount, tracker'.pauseCount, IF event = "pause" THEN 1 ELSE 0)
    /\ Bumped(tracker.playbackSpeedChanges, tracker'.playbackSpeedChanges,
              IF event = "ratechange" THEN 1 ELSE 0)
    /\ Emits(emitted', IF event = "ratechange" THEN "rate-change" ELSE event)
    /\ tracker'.rewindCount = tracker.rewindCount
    /\ tracker'.segmentWatchTimes = tracker.segmentWatchTimes
    /\ tracker'.lastPosition = tracker.lastPosition

\* C14: a pause event adds exactly 1 to pauseCount and emits 'pause', a play
\* event emits 'play' and changes no counter, a rate change adds exactly 1 to
\* playbackSpeedChanges and emits 'rate-change'; each leaves the rest of the
\* Behavior sample as it was.
C14_PausePlayRate ==
    [][\A event \in {"pause", "play", "ratechange"}, p \in Positions, rate \in PlaybackRates :
          VideoEvent(event, p, rate) => PlaybackEventEffect(event)]_vars

\* The same for a tracker that has subscribed to the video once.
SingleSubscriptionPlaybackEvent ==
    [][\A event \in {"pause", "play", "ratechange"}, p \in Positions, rate \in PlaybackRates :
          (tracker.subscriptions = 1 /\ VideoEvent(event, p, rate))
              => PlaybackEventEffect(event)]_vars

C16_StopCancelsTick ==
    /\ [](~tracker.isTracking => tracker.timers = 0)
    /\ [][~tracker.isTracking =>
             /\ \A p \in Positions : ~Tick(p)
             /\ ~Emits(emitted', "confusion-detected")
         ]_vars

C16_Witness ==
    /\ ~tracker.isTracking
    /\ tracker.confusionCheckInterval = "cleared"
    /\ lastCall.op = "pause"
    /\ ~lastCall.wasTracking
    /\ tracker.pauseCount >= 5

----------------------------------------------------------------------------
(* Properties of the settings *)

IsGet(x) == TypeName(x.req) = "GET_SETTINGS"
AsksFor(x, k) == Get(x.req.data, "keys") = List(<<Str(<<k>>)>>)
FreshStore == initializeDefaults(EmptyStore, ConstructorDefaults)

\* C17: on a store on which only initializeDefaults has run, GET_SETTINGS
\* without keys returns every top-level default key with its default value, and
\* GET_SETTINGS with keys = ['extensionEnabled'] returns {extensionEnabled: true}
\* and nothing else.
C17_FreshStoreReads ==
    \A x \in lastSent :
        (IsGet(x) /\ store = FreshStore) =>
            /\ x.resp.success = Bool(TRUE)
            /\ Get(x.req.data, "keys") = Absent =>
                  \A k \in {"features", "extensionEnabled", "preferences", "ai", "userData"} :
                      Get(x.resp.data, k) = ConstructorDefaults[k]
            /\ AsksFor(x, "extensionEnabled") =>
                  x.resp.data = [kind |-> "obj", extensionEnabled |-> Bool(TRUE)]

C17_Witness ==
    \E x \in lastSent :
        /\ IsGet(x) /\ store = FreshStore
        /\ Get(x.req.data, "keys") = Absent
        /\ Get(x.resp.data, "extensionEnabled") = Bool(TRUE)
        /\ Get(x.resp.data, "features") = DefaultFeatures
        /\ Get(x.resp.data, "userData") = DefaultUserData

\* C18: a GET_SETTINGS of key k that follows a completed UPDATE_SETTINGS of k
\* to v, with no other write to k in between, returns v for k.
C18_ReadAfterWrite ==
    \A x \in lastSent : \A k \in StoreKeys :
        (IsGet(x) /\ AsksFor(x, k) /\ lastWrite[k] # NoWrite) =>
            /\ x.resp.success = Bool(TRUE)
            /\ Get(x.resp.data, k) = lastWrite[k]

C18_Witness ==
    \E x \in lastSent :
        /\ IsGet(x) /\ AsksFor(x, "features")
        /\ lastWrite["features"] = PartialFeatures
        /\ x.resp.data = [kind |-> "obj", features |-> PartialFeatures]

\* C19: UPDATE_SETTINGS (updateSetting) replaces the whole stored value of its
\* key by the new value, with no merge of the old sub-fields, and leaves the
\* stored value of every other key as it was.
C19_UpdateReplacesOneKey ==
    [][\A req \in inbox :
          (SettingsAnswer(req) /\ KeyOf(req.type) = "UPDATE_SETTINGS") =>
              /\ store'[KeyOf(Get(req.data, "key"))] = Get(req.data, "value")
              /\ \A j \in StoreKeys \ {KeyOf(Get(req.data, "key"))} : store'[j] = store[j]
      ]_vars

C19_Witness ==
    \E x \in lastSent :
        /\ TypeName(x.req) = "UPDATE_SETTINGS"
        /\ Get(x.req.data, "key") = Str(<<"features">>)
        /\ store["features"] = PartialFeatures
        /\ "autoPause" \notin DOMAIN store["features"]
        /\ store["extensionEnabled"] = Bool(TRUE)
        /\ store["preferences"] = DefaultPreferences

\* the settings key a reader reads
KeyRead(reader) ==
    CASE reader = "isExtensionEnabled" -> "extensionEnabled"
      [] reader = "isFeatureEnabled" -> "features"
      [] reader = "getPreferences" -> "preferences"
      [] reader = "getAIConfig" -> "ai"

\* the value that what the reader reads has in StorageManager.defaults
DefaultRead(reader, arg) ==
    IF reader = "isFeatureEnabled"
      THEN Get(defaults["features"], KeyOf(arg))
      ELSE defaults[KeyRead(reader)]

\* C20: on a store where a settings key is absent, every reader of it
\* (isExtensionEnabled, isFeatureEnabled, getPreferences, getAIConfig) returns
\* the value the key has in StorageManager.defaults; with 'features' absent,
\* isFeatureEnabled(f) is defaults.features[f] for each of the five features.
C20_AbsentMeansDefault ==
    (lastRead.reader \in Readers /\ store[KeyRead(lastRead.reader)] = Absent) =>
        lastRead.result = DefaultRead(lastRead.reader, lastRead.arg)

\* The same without isFeatureEnabled('focusMode').
AbsentMeansDefaultButFocusMode ==
    (/\ lastRead.reader \in Readers
     /\ store[KeyRead(lastRead.reader)] = Absent
     /\ lastRead.arg # Str(<<"focusMode">>)) =>
        lastRead.result = DefaultRead(lastRead.reader, lastRead.arg)

----------------------------------------------------------------------------
(* Properties of the client's error handling *)

\* C24: a failure response is never retried.  In sendViaMessage a one-shot
\* send answered with success = false rejects the call in the callback, with no
\* further send and no port opened; in sendViaPort one request at most is
\* posted per call, and a failure response rejects the call.
C24_FailureNotRetried ==
    /\ [](\A c \in CallIds :
             calls[c].path = "port" => calls[c].log \in {<<>>, <<"port">>})
    /\ [][\A c \in CallIds :
             LET cl == calls[c]
                 nx == calls'[c]
             IN /\ \A response \in chan[c] :
                      (OneShotCallback(c, response) /\ ~Truthy(response.success)) =>
                          /\ nx.outcome = "rejected"
                          /\ nx.phase = "done"
                          /\ nx.log = cl.log
                          /\ nx.portState = "none"
                          /\ inbox' = inbox
                /\ \A msg \in chan[c], again \in BOOLEAN :
                      (/\ PortDeliver(c, msg, again)
                       /\ cl.path = "port" /\ Pending(cl)
                       /\ IdMatches(msg, cl.requestId) /\ ~Truthy(msg.success)) =>
                          nx.outcome = "rejected" /\ nx.log = cl.log /\ inbox' = inbox
                /\ (cl.phase = "done" /\ cl.outcome = "rejected") => nx.log = cl.log
       ]_vars

C24_Witness ==
    /\ calls[1].path = "message"
    /\ calls[1].log = <<"oneshot", "oneshot">>
    /\ calls[1].nErrors = 1
    /\ calls[1].outcome = "rejected"
    /\ calls[1].error # calls[1].lastError
    /\ calls[1].portState = "none"

\* C25: the retry timer armed after the k-th failed one-shot send (k = 1, 2, 3)
\* waits baseDelay * k = 150, 300, 450 ms; the port fallback is opened in the
\* error callback of the last one-shot send, with no retry timer before it.
C25_RetryDelays ==
    /\ [](\A c \in CallIds :
             calls[c].phase = "backoff" =>
                 /\ OneShots(calls[c].log) \in 1..3
                 /\ calls[c].retryDelay = 150 * OneShots(calls[c].log)
                 /\ calls[c].retryDelay \in {150, 300, 450})
    /\ [][\A c \in CallIds :
             LET cl == calls[c]
                 nx == calls'[c]
             IN /\ (cl.phase = "backoff" /\ nx.phase = "backoff") =>
                      nx.retryDelay = cl.retryDelay
                /\ (cl.path = "message" /\ cl.phase # "port" /\ nx.phase = "port") =>
                      /\ cl.phase = "oneshot"
                      /\ cl.retryDelay = 0 /\ nx.retryDelay = 0
                      /\ nx.nErrors = cl.nErrors + 1
       ]_vars

C25_Witness ==
    /\ calls[1].phase = "backoff"
    /\ calls[1].retryDelay = 450
    /\ calls[1].log = <<"oneshot", "oneshot", "oneshot">>

\* C26: when the port fallback of sendViaMessage fails, by its timeout or
\* because chrome.runtime.connect throws, the call rejects in that step with the
\* transport error text of the last one-shot send; a rejected call is not
\* rejected or resolved again.
C26_FallbackFailureRejects ==
    [][\A c \in CallIds :
          LET cl == calls[c]
              nx == calls'[c]
          IN /\ (TimeoutFires(c) /\ cl.path = "message" /\ Pending(cl)) =>
                   /\ nx.outcome = "rejected"
                   /\ nx.phase = "done"
                   /\ nx.error = cl.lastError
                   /\ nx.error \in TransportErrors
             /\ \A msg \in TransportErrors, id \in IdChoices(c) :
                   (/\ OneShotError(c, msg, id, FALSE)
                    /\ ~(IsTransient(msg) /\ cl.triesLeft > 0)) =>
                       /\ nx.outcome = "rejected"
                       /\ nx.phase = "done"
                       /\ nx.error = msg
             /\ cl.outcome = "rejected" =>
                   nx.outcome = "rejected" /\ nx.error = cl.error
      ]_vars

C26_Witness ==
    /\ calls[1].log = <<"oneshot", "oneshot", "oneshot", "oneshot", "port">>
    /\ calls[1].outcome = "rejected"
    /\ calls[1].error = PortClosedMsg
    /\ calls[1].consumed = 0
    /\ calls[1].timer = 0
    /\ calls[1].portState = "closed"

----------------------------------------------------------------------------
(* Properties of the feature toggles *)

\* what a completed TOGGLE_FEATURE of req must have done, by C29
ToggleEffect(req) ==
    LET f == Get(req.data, "featureName")
        before == isFeatureEnabled(store, f)
    IN \A x \in lastSent' :
          /\ x.resp.success = Bool(TRUE)
          /\ Get(x.resp.data, "featureName") = f
          /\ Get(x.resp.data, "enabled") = Bool(~Truthy(before))
          /\ isFeatureEnabled(store', f) = Get(x.resp.data, "enabled")
          /\ \A g \in FeatureNames \ {KeyOf(f)} :
                isFeatureEnabled(store', Str(<<g>>)) = isFeatureEnabled(store, Str(<<g>>))

\* C29: TOGGLE_FEATURE of f answers {featureName: f, enabled: e} with e the
\* negation of isFeatureEnabled(f) just before the request; afterwards
\* isFeatureEnabled(f) is e and isFeatureEnabled of every other feature is
\* what it was; also when 'features' or its entry f is not stored.
C29_ToggleNegates ==
    [][\A req \in inbox :
          (SettingsAnswer(req) /\ KeyOf(req.type) = "TOGGLE_FEATURE") => ToggleEffect(req)
      ]_vars

\* The same for a feature whose entry is stored.
ToggleNegatesStoredEntry ==
    [][\A req \in inbox :
          (/\ SettingsAnswer(req)
           /\ KeyOf(req.type) = "TOGGLE_FEATURE"
           /\ Get(getSetting(store, Str(<<"features">>)),
                  KeyOf(Get(req.data, "featureName"))) # Absent) => ToggleEffect(req)
      ]_vars

----------------------------------------------------------------------------
(* Properties of the handlers' input checks *)

UnconfiguredKeys == {Absent, Str(<<>>), Str(<<"<YOUR_GEMINI_API_KEY_HERE>">>)}
ProviderTypes == {"ANALYZE_FRAME", "TEST_GEMINI", "SIMPLIFY_TEXT", "GENERATE_CHECKLIST"}

\* the request is one whose handling, with a key configured, depends on what
\* the provider answers
NeedsProvider(req) ==
    LET configured == [store EXCEPT !["geminiApiKey"] = RealKey] IN
    \E e1, e2 \in ProviderOutcomes :
        ListenerResponse(req, e1, configured, defaults)
            # ListenerResponse(req, e2, configured, defaults)

\* C22: with geminiApiKey missing, empty or the placeholder, an ANALYZE_FRAME,
\* TEST_GEMINI, SIMPLIFY_TEXT or GENERATE_CHECKLIST request that needs the
\* provider is answered with the failure 'Gemini API key not configured. ...',
\* and the answer is the same whatever the provider would have replied: the
\* provider is not called.
C22_MissingKeyFailsWithoutFetch ==
    \A x \in lastSent :
        (/\ TypeName(x.req) \in ProviderTypes
         /\ store["geminiApiKey"] \in UnconfiguredKeys
         /\ NeedsProvider(x.req)) =>
            /\ x.resp.success = Bool(FALSE)
            /\ x.resp.error = Str(KeyMissingMsg)
            /\ ~Truthy(x.resp.data)
            /\ \A env \in ProviderOutcomes :
                  ListenerResponse(x.req, env, store, defaults) = x.resp

C22_Witness ==
    \E x \in lastSent :
        /\ TypeName(x.req) = "SIMPLIFY_TEXT"
        /\ Truthy(Get(x.req.data, "text"))
        /\ store["geminiApiKey"] = Str(<<>>)
        /\ x.out.how = "threw"
        /\ x.resp.error = Str(KeyMissingMsg)

\* the data field a request of the type must carry
RequiredField(type) ==
    CASE type = "ANALYZE_FRAME" -> "frameDataUrl"
      [] type = "SIMPLIFY_TEXT" -> "text"
      [] type = "GENERATE_CHECKLIST" -> "transcript"
      [] type = "DETECT_CONFUSION" -> "userBehavior"
      [] type = "UPDATE_SETTINGS" -> "key"
      [] type = "TOGGLE_FEATURE" -> "featureName"
      [] type = "RECORD_INTERACTION" -> "interactionType"
Incomplete(req) ==
    /\ KeyOf(req.type) \in {"ANALYZE_FRAME", "SIMPLIFY_TEXT", "GENERATE_CHECKLIST",
                            "DETECT_CONFUSION", "UPDATE_SETTINGS", "TOGGLE_FEATURE",
                            "RECORD_INTERACTION"}
    /\ Get(req.data, RequiredField(KeyOf(req.type))) = Absent

\* the background answers req with a failure that carries an error text, and
\* leaves the store as it was
RejectedUnchanged(req) ==
    /\ store' = store
    /\ \A x \in lastSent' : x.resp.success = Bool(FALSE) /\ Truthy(x.resp.error)

\* C23: a request without its required data field (frameDataUrl, text,
\* transcript, userBehavior, key, featureName, interactionType) is answered
\* with a failure response carrying an error text, and the settings store is
\* left unchanged.
C23_MissingFieldRejected ==
    [][\A req \in inbox, env \in ProviderOutcomes :
          (BgAnswer(req, env) /\ Incomplete(req)) => RejectedUnchanged(req)
      ]_vars

\* The same for the requests of the AI operations, with the error texts of
\* their handlers.
MissingAIInputRejected ==
    [][\A req \in inbox, env \in ProviderOutcomes :
          (/\ BgAnswer(req, env)
           /\ Incomplete(req)
           /\ KeyOf(req.type) \in {"ANALYZE_FRAME", "SIMPLIFY_TEXT", "GENERATE_CHECKLIST",
                                   "DETECT_CONFUSION"}) =>
              /\ RejectedUnchanged(req)
              /\ \A x \in lastSent' :
                    x.resp.error.s \in
                        {<<"No image data provided">>,
                         <<"No text provided for simplification">>,
                         <<"No transcript provided for checklist generation">>,
                         <<"Cannot destructure property 'rewindCount' of 'userBehavior' as it is undefined.">>}
      ]_vars

----------------------------------------------------------------------------
(* Properties of the choice of transport *)

InferenceTypes == {"ANALYZE_FRAME", "TEST_GEMINI", "SIMPLIFY_TEXT", "GENERATE_CHECKLIST",
                   "DETECT_CONFUSION"}

\* the sends of a MessageClient call follow the strategy of its type
CallFollowsStrategy(cl) ==
    IF KeyOf(cl.type) \in InferenceTypes
      THEN \A i \in DOMAIN cl.log : cl.log[i] = "port"
      ELSE /\ cl.log # <<>> => cl.log[1] = "oneshot"
           /\ \A i \in DOMAIN cl.log :
                 cl.log[i] = "port" => (i = Len(cl.log) /\ cl.nErrors = i - 1 /\ i > 1)

\* C21: whichever context sends it, a request of an inference type
\* (ANALYZE_FRAME, TEST_GEMINI, SIMPLIFY_TEXT, GENERATE_CHECKLIST,
\* DETECT_CONFUSION) reaches the background over a port and never as a one-shot
\* message; a call of any other type starts with a one-shot send and opens a
\* port only after its one-shot sends ended in a transport error.
C21_StrategyByType ==
    /\ \A req \in inbox : KeyOf(req.type) \in InferenceTypes => req.transport = "port"
    /\ \A c \in CallIds : calls[c].phase # "idle" => CallFollowsStrategy(calls[c])

\* The same for the requests that go through the MessageClient.
ClientStrategyByType ==
    /\ \A req \in inbox :
          (req.call \in CallIds /\ KeyOf(req.type) \in InferenceTypes) =>
              req.transport = "port"
    /\ \A c \in CallIds : calls[c].phase # "idle" => CallFollowsStrategy(calls[c])

----------------------------------------------------------------------------
(* Properties of the interaction record *)

\* userData as a GET_SETTINGS would find it, or the defaults when none is stored
UserDataNow == Or(getSetting(store, Str(<<"userData">>)), defaults["userData"])
Quiet == inbox = {} /\ recording = {}

\* C30: when N RECORD_INTERACTION requests have been answered {success: true}
\* and none is in progress, userData.totalInterventions and the length of
\* userData.preferredInterventions have each grown by exactly N (from 0 and the
\* empty list), however the handlers of the requests interleaved.
C30_EveryInteractionCounted ==
    Quiet =>
        /\ Get(UserDataNow, "totalInterventions") = Num(recorded)
        /\ Len(Get(UserDataNow, "preferredInterventions").items) = recorded

\* A handler that writes while userData is still what it read adds exactly 1
\* to the count and one {type, timestamp} entry to the list.
FreshReadCountsOnce ==
    [][\A h \in recording :
          (RecordWrite(h) /\ h.stored = getSetting(store, Str(<<"userData">>))) =>
              /\ Get(store'["userData"], "totalInterventions").n
                    = Get(UserDataNow, "totalInterventions").n + 1
              /\ Get(store'["userData"], "preferredInterventions").items
                    = Append(Get(UserDataNow, "preferredInterventions").items,
                             [kind |-> "obj", type |-> Get(h.req.data, "interactionType"),
                              timestamp |-> Timestamp])
      ]_vars

----------------------------------------------------------------------------
(* Properties of callLLM's text extraction *)

\* the first substring of t, by its start, that is a JSON object or array
JsonStarts(t) == {i \in DOMAIN t : t[i] \in {"{", "["} /\ ValueAt(t, i).ok}
FirstJson(t) == ValueAt(t, Least(JsonStarts(t))).val

\* what C27 says callLLM returns for the text t
ExtractedInOrder(t) ==
    IF JSONparse(t).how = "returned" THEN JSONparse(t).val
    ELSE IF JsonStarts(t) # {} THEN FirstJson(t)
    ELSE TextAsSimplified(t)

\* C27: callLLM returns the parse of the whole text if the text is JSON,
\* otherwise the parse of the first JSON object or array substring of the
\* text if there is one, otherwise {simplified: the text, definitions: []}.
C27_FirstJsonSubstring ==
    parsed # NotParsed => parsed = ExtractedInOrder(resultText)

\* t is prose, one JSON object, prose
IsProse(t) == \A i \in DOMAIN t : t[i] = "p"
AroundOneObject(t) ==
    \E i, j \in DOMAIN t :
        /\ i <= j /\ t[i] = "{"
        /\ JSONparse(SubSeq(t, i, j)).how = "returned"
        /\ IsProse(SubSeq(t, 1, i - 1)) /\ IsProse(SubSeq(t, j + 1, Len(t)))

\* callLLM returns a value for every text; for prose, one JSON object and more
\* prose it returns that object; for a text without a brace or bracket pair
\* that is not JSON it returns {simplified: the text, definitions: []}.
ExtractionTotal ==
    parsed # NotParsed =>
        /\ parsed.kind \in {"obj", "list", "num"}
        /\ AroundOneObject(resultText) => parsed = FirstJson(resultText)
        /\ (MatchStarts(resultText) = {} /\ JSONparse(resultText).how = "threw") =>
              parsed = TextAsSimplified(resultText)

----------------------------------------------------------------------------
(* Properties of the proactive assistance *)

ConfusionCall(cl) == KeyOf(cl.type) = "DETECT_CONFUSION" /\ cl.phase # "idle"
Resolved == {c \in CallIds : calls[c].outcome = "resolved"}

\* C28: while the tracker is tracking, 3 or more rewinds lead to a
\* 'confusion-detected' trip at the next tick; the tick sends DETECT_CONFUSION
\* on the trip's payload; every trip payload is classified isConfused = true;
\* and when the response is dispatched to the pending call, a
\* CONFUSION_DETECTED message with the score and the suggestions is posted to
\* the UI, so that every such call ends rejected (no answer in time) or with
\* its message posted.
C28_TripReachesUI ==
    /\ [][AssistTick =>
             IF tracker.rewindCount >= 3 \/ tracker.pauseCount >= 5
               THEN /\ Emits(emitted', "confusion-detected")
                    /\ \E c \in CallIds :
                          /\ calls[c].phase = "idle" /\ calls'[c].phase = "port"
                          /\ PortRequest(c, calls'[c]) \in inbox'
                          /\ calls'[c].data =
                                Data1("userBehavior",
                                      BehaviorData([rewindCount |-> tracker.rewindCount,
                                                    pauseCount |-> tracker.pauseCount,
                                                    currentTimestamp |-> tracker.lastPosition,
                                                    watchedSegments |->
                                                        tracker.segmentWatchTimes]))
               ELSE emitted' = <<>> /\ calls' = calls
       ]_vars
    /\ [](\A c \in CallIds :
             ConfusionCall(calls[c]) =>
                 /\ detectConfusion(Get(calls[c].data, "userBehavior")).isConfused = Bool(TRUE)
                 /\ calls[c].outcome = "resolved" =>
                       /\ Get(calls[c].value, "isConfused") = Bool(TRUE)
                       /\ Get(calls[c].value, "confusionScore").n >= 3)
    /\ [](Len(ui) = Cardinality(Resolved))
    /\ [][\A c \in CallIds : \A msg \in chan[c] :
             (/\ AssistDeliver(c, msg)
              /\ calls[c].outcome = "pending" /\ calls[c].listener
              /\ IdMatches(msg, calls[c].requestId)) =>
                 ui' = Append(ui, [type |-> "PVL_RESPONSE_CONFUSION_DETECTED",
                                   data |-> [kind |-> "obj",
                                             score |-> msg.data.confusionScore,
                                             suggestions |-> List(Interventions)]])
       ]_vars
    /\ (tracker.isTracking /\ tracker.rewindCount >= 3)
          ~> Emits(emitted, "confusion-detected")
    /\ \A c \in CallIds :
          (calls[c].phase = "port") ~> (calls[c].outcome \in {"resolved", "rejected"})

C28_Witness ==
    /\ calls[1].outcome = "resolved"
    /\ Get(Get(calls[1].data, "userBehavior"), "rewindCount") = Num(3)
    /\ ui = <<[type |-> "PVL_RESPONSE_CONFUSION_DETECTED",
               data |-> [kind |-> "obj", score |-> Num(6),
                         suggestions |-> List(Interventions)]]>>
    /\ tracker.rewindCount = 0
    /\ tracker.isTracking


----------------------------------------------------------------------------
(* Properties of the errors a caller sees *)

\* the call's listener takes msg for the response to its request
Consumes(cl, msg) ==
    Pending(cl) /\ cl.listener /\ cl.portState = "open" /\ IdMatches(msg, cl.requestId)
FailureWithError(msg) == ~Truthy(msg.success) /\ Truthy(msg.error)

\* the step of call c that handles a failure response rejects the call with
\* the response's error
RejectsWithResponderError(c) ==
    /\ \A response \in chan[c] :
          (OneShotCallback(c, response) /\ FailureWithError(response)) =>
              /\ calls'[c].outcome = "rejected"
              /\ calls'[c].error = Text(response.error)
    /\ \A msg \in chan[c], again \in BOOLEAN :
          (PortDeliver(c, msg, again) /\ Consumes(calls[c], msg) /\ FailureWithError(msg)) =>
              /\ calls'[c].outcome = "rejected"
              /\ calls'[c].error = Text(msg.error)

\* C40: a call that rejects because the background answered its request with
\* {success: false, error: e} rejects with the message e, on the one-shot
\* path, on the primary port path and on the port fallback of sendViaMessage.
C40_RejectionCarriesResponderError ==
    [][\A c \in CallIds : RejectsWithResponderError(c)]_vars

\* On the one-shot path and on the primary port path the rejection carries the
\* error of the failure response.
PrimaryRejectionCarriesResponderError ==
    [][\A c \in CallIds : ~OnFallback(calls[c]) => RejectsWithResponderError(c)]_vars

\* a failure response was consumed on the port fallback and the call rejected
\* with the transport error of its last one-shot send
FallbackFailureConsumed ==
    \E c \in CallIds :
        /\ OnFallback(calls[c])
        /\ calls[c].consumed = 1
        /\ calls[c].outcome = "rejected"
        /\ calls[c].error = calls[c].lastError

----------------------------------------------------------------------------
(* Properties of the StorageManager's methods *)

\* C39: no method of the StorageManager changes this.defaults: it equals the
\* value the constructor gave it after any sequence of recordInteraction,
\* toggleFeature, updatePreferences, updateAIConfig, clearAllData and
\* initializeDefaults, so initializeDefaults writes the constructor's userData and
\* the first recordInteraction on a cleared store stores totalInterventions = 1.
C39_DefaultsNeverModified ==
    /\ defaults = ConstructorDefaults
    /\ lastOp.op = "initializeDefaults" => store["userData"] = DefaultUserData
    /\ (lastOp.op = "recordInteraction" /\ Get(store["userData"], "preferredInterventions")
                                              = List(<<[kind |-> "obj", type |-> lastOp.arg,
                                                        timestamp |-> Timestamp]>>)) =>
           Get(store["userData"], "totalInterventions") = Num(1)

\* Only recordInteraction on a store without userData changes the defaults, and
\* only their userData.
DefaultsChangedByRecordOnly ==
    [][defaults' # defaults =>
          /\ lastOp'.op = "recordInteraction"
          /\ ~Truthy(store["userData"])
          /\ \A k \in DefaultKeys \ {"userData"} : defaults'[k] = defaults[k]]_vars

\* initializeDefaults has written defaults whose userData counts an interaction
DefaultsWrittenWithCount ==
    /\ lastOp.op = "initializeDefaults"
    /\ Get(store["userData"], "totalInterventions") = Num(1)

\* C34: toggleExtensionEnabled negates the global enabled state: stored true
\* or absent, it stores and returns false; stored false, it stores and returns
\* true.
C34_ToggleExtensionNegates ==
    [][CallToggleExtensionEnabled =>
          LET was == isExtensionEnabled(store) IN
          /\ lastOp'.result = Bool(~was.b)
          /\ store'["extensionEnabled"] = Bool(~was.b)]_vars

\* toggleExtensionEnabled stores and returns the state the extension was in
ToggleExtensionKeepsState ==
    [][CallToggleExtensionEnabled =>
          /\ lastOp'.result = isExtensionEnabled(store)
          /\ store'["extensionEnabled"] = isExtensionEnabled(store)
          /\ \A k \in StoreKeys \ {"extensionEnabled"} : store'[k] = store[k]]_vars

\* toggleExtensionEnabled was called on a disabled extension and left it disabled
ToggledWhileDisabled ==
    /\ lastOp.op = "toggleExtensionEnabled"
    /\ lastOp.result = Bool(FALSE)
    /\ store["extensionEnabled"] = Bool(FALSE)

----------------------------------------------------------------------------
(* Properties of overlapping feature toggles *)

EntryOf(features, f) == Truthy(Get(features, f))

\* C38: two TOGGLE_FEATURE requests for two different features, handled
\* concurrently, both take effect: once both are answered, each of the two
\* features holds the negation of the entry it had before the two requests.
C38_BothTogglesTakeEffect ==
    (inbox = {} /\ toggling = {} /\ round.done = ToggledFeatures) =>
        \A f \in ToggledFeatures :
            EntryOf(getSetting(store, Str(<<"features">>)), f) = ~EntryOf(round.before, f)

\* A handler that writes while features is still what it read negates its
\* feature's entry and leaves every other entry as it was.
FreshReadTogglesOne ==
    [][\A h \in toggling :
          (ToggleWrite(h) /\ h.stored = getSetting(store, Str(<<"features">>))) =>
              LET f == KeyOf(Get(h.req.data, "featureName"))
                  after == getSetting(store', Str(<<"features">>))
              IN /\ EntryOf(after, f) = ~EntryOf(h.stored, f)
                 /\ \A g \in FeatureNames \ {f} : Get(after, g) = Get(h.stored, g)]_vars

\* both requests are answered and the toggle of one feature is lost
ToggleLost ==
    /\ inbox = {} /\ toggling = {} /\ round.done = ToggledFeatures
    /\ \E f \in ToggledFeatures :
          EntryOf(getSetting(store, Str(<<"features">>)), f) = EntryOf(round.before, f)

----------------------------------------------------------------------------
(* Properties of the tracker's subscriptions *)

\* one playback event applied to the sample exactly once
AppliedOnce(event, p) ==
    IF event = "timeupdate" THEN TimeUpdateEffect(p) ELSE PlaybackEventEffect(event)

\* C36: a playback event is applied to the tracker's Behavior sample exactly
\* once while the tracker is tracking and not at all while it is stopped,
\* after any sequence of start() and stop(): a stopped tracker's sample does not
\* change, and after start(); stop(); start() one pause adds exactly 1 to
\* pauseCount.
C36_EventAppliedOnceWhileTracking ==
    [][\A event \in PlaybackEvents, p \in Positions, rate \in PlaybackRates :
          VideoEvent(event, p, rate) =>
              IF tracker.isTracking THEN AppliedOnce(event, p)
              ELSE BehaviorOf(tracker') = BehaviorOf(tracker)]_vars

\* A pause or a rate change is counted once for every start() that found the
\* tracker stopped, whether the tracker is tracking or not.
EventCountedPerSubscription ==
    [][\A p \in Positions, rate \in PlaybackRates :
          /\ VideoEvent("pause", p, rate) =>
                Bumped(tracker.pauseCount, tracker'.pauseCount, tracker.subscriptions)
          /\ VideoEvent("ratechange", p, rate) =>
                Bumped(tracker.playbackSpeedChanges, tracker'.playbackSpeedChanges,
                       tracker.subscriptions)]_vars

\* a pause event was counted by a stopped tracker
PauseCountedWhileStopped ==
    /\ lastCall.op = "pause"
    /\ ~lastCall.wasTracking
    /\ tracker.pauseCount >= 1

----------------------------------------------------------------------------
(* Properties of the results made from the provider's text *)

AnsweredFrom(x, type, transport) == TypeName(x.req) = type /\ x.req.transport = transport

\* t is not JSON and holds no substring that is a JSON object
NoJsonObject(t) ==
    /\ JSONparse(t).how = "threw"
    /\ ~\E i, j \in DOMAIN t :
          i <= j /\ t[i] = "{" /\ JSONparse(SubSeq(t, i, j)).how = "returned"

\* C31: a success response to ANALYZE_FRAME carries an object with an objects
\* sequence: when the provider's text is not JSON and holds no parseable JSON
\* object, the request succeeds with the default {objects: []}, on the port and
\* on the one-shot listener.
C31_FrameResultDegradesToEmpty ==
    \A x \in lastSent : \A transport \in {"port", "oneshot"} :
        (AnsweredFrom(x, "ANALYZE_FRAME", transport) /\ NoJsonObject(resultText)) =>
            /\ Truthy(x.resp.success)
            /\ x.resp.data = EmptyDetection

\* For such a text ANALYZE_FRAME succeeds on both listeners and its data is
\* the text itself, where AIService.callVLM would return {objects: []}.
FrameResultKeepsRawText ==
    \A x \in lastSent : \A transport \in {"port", "oneshot"} :
        (AnsweredFrom(x, "ANALYZE_FRAME", transport) /\ NoJsonObject(resultText)) =>
            /\ Truthy(x.resp.success)
            /\ x.resp.data = Str(resultText)
            /\ parseVLMText(resultText) = EmptyDetection

\* ANALYZE_FRAME on a port was answered with the raw text of a prose reply
RawTextOnPort ==
    \E x \in lastSent :
        /\ AnsweredFrom(x, "ANALYZE_FRAME", "port")
        /\ IsProse(resultText)
        /\ x.resp.data.kind = "str"

\* t is not JSON and holds no substring that is a JSON object or array
NoJsonValue(t) == JSONparse(t).how = "threw" /\ JsonStarts(t) = {}

\* C32: a success response to GENERATE_CHECKLIST carries a sequence of
\* checklist items, possibly empty, also when the provider's text cannot be
\* parsed as JSON and callLLM returns its default.
C32_ChecklistResultIsSequence ==
    \A x \in lastSent :
        (TypeName(x.req) = "GENERATE_CHECKLIST" /\ NoJsonValue(resultText)) =>
            /\ Truthy(x.resp.success)
            /\ x.resp.data.kind = "list"

\* For such a text GENERATE_CHECKLIST succeeds with callLLM's default for
\* every request: {simplified: the text, definitions: []}.
ChecklistDegradesToSimplified ==
    \A x \in lastSent :
        (TypeName(x.req) = "GENERATE_CHECKLIST" /\ NoJsonValue(resultText)) =>
            /\ Truthy(x.resp.success)
            /\ x.resp.data = TextAsSimplified(resultText)

\* GENERATE_CHECKLIST was answered with the wrapper of a prose reply
ChecklistAnsweredWithWrapper ==
    \E x \in lastSent :
        /\ TypeName(x.req) = "GENERATE_CHECKLIST"
        /\ IsProse(resultText)
        /\ Get(x.resp.data, "simplified") = Str(resultText)

----------------------------------------------------------------------------
(* Properties of the content script *)

ActiveTrackers(pg) == {k \in DOMAIN pg.trackers : pg.trackers[k].timers >= 1}
Quiescent == page.pending = <<>> /\ \A i \in DOMAIN page.inits : page.inits[i] = "done"
EnabledNow == isExtensionEnabled(store).b

\* C33: the content script converges to extensionEnabled through the change
\* notifications alone: once every change has been notified and every pending
\* asynchronous step has finished without a failure, on a page with a video,
\* the content script is initialized with an active tracker if the setting is
\* true, and is not initialized and has no active tracker if it is false,
\* also when the page was loaded while the setting was false.
C33_ConvergesToSetting ==
    (Quiescent /\ page.hasVideo /\ ~page.failed) =>
        IF EnabledNow THEN page.isInitialized /\ ActiveTrackers(page) # {}
        ELSE ~page.isInitialized /\ ActiveTrackers(page) = {}

\* Without a change of the setting, the init() call made at load ends
\* initialized with one active tracker exactly when the setting is true.
LoadFollowsSetting ==
    (Quiescent /\ page.hasVideo /\ ~page.failed /\ page.changes = 0 /\ Len(page.inits) = 1) =>
        /\ page.isInitialized = EnabledNow
        /\ Cardinality(ActiveTrackers(page)) = IF EnabledNow THEN 1 ELSE 0

\* the setting was changed to true and notified, and the content script of a
\* page loaded while it was false stays uninitialized
EnabledButNotInitialized ==
    /\ Quiescent /\ page.hasVideo /\ ~page.failed
    /\ EnabledNow /\ page.changes = 1
    /\ ~page.isInitialized
    /\ page.changeListeners = 0

\* C35: at most one tracker of a content script has a running interval at any
\* time, under any interleaving of init() calls, and the cleanup on disable
\* stops every tracker that was started.
C35_AtMostOneActiveTracker ==
    /\ [](Cardinality(ActiveTrackers(page)) <= 1)
    /\ [][(ChangeNotified /\ page.isInitialized /\ ~Truthy(Head(page.pending))) =>
             ActiveTrackers(page') = {}]_vars

\* While one init() call at most has passed the guard there is one active
\* tracker at most, it is the one the behaviorTracker field refers to, and the
\* cleanup on disable stops it.
SingleInitSingleTracker ==
    /\ [](Len(page.inits) <= 1 =>
             /\ Cardinality(ActiveTrackers(page)) <= 1
             /\ ActiveTrackers(page) \subseteq {page.behaviorTracker})
    /\ [][(ChangeNotified /\ page.isInitialized /\ ~Truthy(Head(page.pending))
                          /\ Len(page.inits) <= 1) =>
             ActiveTrackers(page') = {}]_vars

\* two trackers of one content script have a running interval
TwoActiveTrackers == Cardinality(ActiveTrackers(page)) = 2

\* C37: after any sequence of disable and re-enable notifications a message
\* of the page UI is handled exactly once: a toggle message changes the focus
\* mode or the play state once, a request message makes one background request.
C37_UIMessageHandledOnce ==
    page.lastUI.type # "none" =>
        /\ page.lastUI.handled = 1
        /\ page.lastUI.type \in UIToggles => page.lastUI.changed
        /\ page.lastUI.requests = IF page.lastUI.type \in UIRequests THEN 1 ELSE 0

\* A message of the page UI is handled once for every setupEventListeners()
\* call made so far, and exactly once after the first.
UIMessageHandledPerListener ==
    [][\A type \in UIMessageTypes :
          UIMessage(type) =>
              /\ page'.lastUI.handled = page.messageListeners
              /\ page.messageListeners = 1 =>
                    /\ type \in UIToggles => page'.lastUI.changed
                    /\ page'.lastUI.requests = IF type \in UIRequests THEN 1 ELSE 0]_vars

\* after a disable and a re-enable a toggle message was handled twice and left
\* the state as it was
ToggleHandledTwice ==
    /\ page.changes = 2
    /\ page.lastUI.type = "PVL_TOGGLE_PAUSE"
    /\ page.lastUI.handled = 2
    /\ ~page.lastUI.changed
====
